---- MODULE Spec2Model ----
(***************************************************************************)
(* Gnex: the submission lifecycle of unnamed/part_000 (Gnex.form /          *)
(* _setupFormHandler / executeSubmission / _processSseStream /              *)
(* _handleProgressTracking / cancel), as a state machine.                   *)
(*                                                                          *)
(* One step of the model is one run-to-completion piece of JavaScript: the  *)
(* code between two suspension points (await fetch, await body decode,      *)
(* await reader.read()).  Text is a sequence of one-character strings;      *)
(* a byte stream is a sequence of byte symbols (an ASCII byte is written as *)
(* its character, the two bytes of U+00E9 as "C3" and "A9").                *)
(***************************************************************************)
EXTENDS Integers, Sequences, FiniteSets, TLC

\* ---------------------------------------------------------------- bounds
MaxRetry == 2        \* retryCount ranges over 0..MaxRetry
MaxSubmits == 2      \* submit events delivered to one form
MaxTicks == 1        \* clock advances
TickMs == 1000       \* milliseconds one clock advance adds to Date.now()
FileSize == 2        \* byte size of the non-empty file of the payload
MaxBodyLen == 2      \* byte length of a response body read by proxyFetch
MaxLines == 3        \* lines of a generated event stream
MaxTotalSize == 4    \* totalSize of the files when the proxy is checked alone
MaxProxyLen == 6     \* body length when the proxy is checked alone
MaxCancels == 2      \* counted calls of Gnex.cancel per submission

Forms == {"f1"}

\* ---------------------------------------------------------------- text helpers
None == "none"

Min(a, b) == IF a < b THEN a ELSE b

StartsWith(s, p) == Len(s) >= Len(p) /\ SubSeq(s, 1, Len(p)) = p

\* String.prototype.slice(n)
Slice(s, n) == SubSeq(s, n + 1, Len(s))

IsWs(c) == c \in {" ", "\n"}

RECURSIVE TrimStart(_)
TrimStart(s) == IF s # <<>> /\ IsWs(Head(s)) THEN TrimStart(Tail(s)) ELSE s

RECURSIVE TrimEnd(_)
TrimEnd(s) ==
    IF s # <<>> /\ IsWs(s[Len(s)]) THEN TrimEnd(SubSeq(s, 1, Len(s) - 1)) ELSE s

\* String.prototype.trim()
Trim(s) == TrimEnd(TrimStart(s))

\* a callback invocation: its name, the kind and the data it is given, and the
\* percentage of an upload-progress report
Call(cb, kind, data) == [cb |-> cb, kind |-> kind, data |-> data, pct |-> 0]

\* ---------------------------------------------------------------- JSON.parse
(* JSON.parse on the texts the model's alphabet can spell: optional          *)
(* whitespace, numbers (sign, integer part, exponent), strings without       *)
(* escapes, the literals, and objects of string-keyed members.  The alphabet *)
(* has no ".", "[" or backslash.  Each Parse* returns the index after what   *)
(* it recognised, or 0 when the text at i is not of that form.               *)
Digits == {"0", "1", "2", "3", "4", "5", "6", "7", "8", "9"}

RECURSIVE SkipWs(_, _)
SkipWs(t, i) == IF i <= Len(t) /\ IsWs(t[i]) THEN SkipWs(t, i + 1) ELSE i

RECURSIVE SkipDigits(_, _)
SkipDigits(t, i) == IF i <= Len(t) /\ t[i] \in Digits THEN SkipDigits(t, i + 1) ELSE i

ParseInt(t, i) ==
    IF i > Len(t) \/ t[i] \notin Digits THEN 0
    ELSE IF t[i] = "0" THEN i + 1
    ELSE SkipDigits(t, i)

ParseExp(t, i) ==
    IF i <= Len(t) /\ t[i] \in {"e", "E"}
    THEN LET j == IF i + 1 <= Len(t) /\ t[i + 1] \in {"+", "-"} THEN i + 2 ELSE i + 1
             k == SkipDigits(t, j)
         IN  IF k > j THEN k ELSE 0
    ELSE i

ParseNumber(t, i) ==
    LET j == IF i <= Len(t) /\ t[i] = "-" THEN i + 1 ELSE i
        k == ParseInt(t, j)
    IN  IF k = 0 THEN 0 ELSE ParseExp(t, k)

RECURSIVE ParseStringBody(_, _)
ParseStringBody(t, i) ==
    IF i > Len(t) THEN 0
    ELSE IF t[i] = "\"" THEN i + 1
    ELSE IF t[i] = "\n" THEN 0
    ELSE ParseStringBody(t, i + 1)

ParseString(t, i) ==
    IF i <= Len(t) /\ t[i] = "\"" THEN ParseStringBody(t, i + 1) ELSE 0

ParseLiteral(t, i) ==
    LET Lit(w) == i + Len(w) - 1 <= Len(t) /\ SubSeq(t, i, i + Len(w) - 1) = w
    IN  IF Lit(<<"t", "r", "u", "e">>) THEN i + 4
        ELSE IF Lit(<<"n", "u", "l", "l">>) THEN i + 4
        ELSE IF Lit(<<"f", "a", "l", "s", "e">>) THEN i + 5
        ELSE 0

RECURSIVE ParseValue(_, _)
RECURSIVE ParseMembers(_, _)

\* after "{" and whitespace: "}" or  string ws ":" value ("," ws members)
ParseMembers(t, i) ==
    LET k == ParseString(t, i)
        c == IF k = 0 THEN 0 ELSE SkipWs(t, k)
        v == IF c = 0 \/ c > Len(t) \/ t[c] # ":" THEN 0 ELSE ParseValue(t, c + 1)
    IN  IF v = 0 \/ v > Len(t) THEN 0
        ELSE IF t[v] = "}" THEN v + 1
        ELSE IF t[v] = "," THEN ParseMembers(t, SkipWs(t, v + 1))
        ELSE 0

\* ws value ws
ParseValue(t, i) ==
    LET j == SkipWs(t, i)
        e == IF j > Len(t) THEN 0
             ELSE IF t[j] = "{"
                  THEN LET m == SkipWs(t, j + 1)
                       IN  IF m <= Len(t) /\ t[m] = "}" THEN m + 1 ELSE ParseMembers(t, m)
             ELSE IF t[j] = "\"" THEN ParseString(t, j)
             ELSE IF t[j] \in Digits \cup {"-"} THEN ParseNumber(t, j)
             ELSE ParseLiteral(t, j)
    IN  IF e = 0 THEN 0 ELSE SkipWs(t, e)

\* JSON.parse(text) succeeds (FALSE: it throws a SyntaxError)
JsonValid(t) == ParseValue(t, 1) = Len(t) + 1

\* the parsed value, denoted by the text that spells it
JsonValue(t) == Trim(t)

\* JavaScript truthiness of JSON.parse(text), for a valid text
JsonTruthy(t) ==
    LET v == Trim(t)
        digits == IF v[1] = "-" THEN Tail(v) ELSE v
    IN  /\ digits[1] # "0"
        /\ v # <<"\"", "\"">>
        /\ v # <<"f", "a", "l", "s", "e">>
        /\ v # <<"n", "u", "l", "l">>

\* a non-empty string is truthy
TextTruthy(t) == t # <<>>

\* ---------------------------------------------------------------- SSE text
\* U+00E9, whose UTF-8 bytes are C3 A9, and U+FFFD, the replacement character
EAcute == "U+00E9"
Replacement == "U+FFFD"

(* new TextDecoder().decode(value): every call decodes its chunk on its own  *)
(* (no {stream: true}), so a lead byte the chunk ends on, and a continuation *)
(* byte the chunk starts with, each decode to U+FFFD.                        *)
RECURSIVE Decode(_)
Decode(b) ==
    IF b = <<>> THEN <<>>
    ELSE IF b[1] = "C3"
         THEN IF Len(b) >= 2 /\ b[2] = "A9"
              THEN <<EAcute>> \o Decode(SubSeq(b, 3, Len(b)))
              ELSE <<Replacement>> \o Decode(Tail(b))
    ELSE IF b[1] = "A9" THEN <<Replacement>> \o Decode(Tail(b))
    ELSE <<b[1]>> \o Decode(Tail(b))

\* the index of the first occurrence of d in s at or after i, or 0
RECURSIVE IndexOf(_, _, _)
IndexOf(s, d, i) ==
    IF i + Len(d) - 1 > Len(s) THEN 0
    ELSE IF SubSeq(s, i, i + Len(d) - 1) = d THEN i
    ELSE IndexOf(s, d, i + 1)

\* String.prototype.split(d), for a non-empty separator
RECURSIVE Split(_, _)
Split(s, d) ==
    LET i == IndexOf(s, d, 1)
    IN  IF i = 0 THEN <<s>>
        ELSE <<SubSeq(s, 1, i - 1)>> \o Split(SubSeq(s, i + Len(d), Len(s)), d)

\* Array.prototype.join(d)
RECURSIVE Join(_, _)
Join(parts, d) ==
    IF parts = <<>> THEN <<>>
    ELSE IF Len(parts) = 1 THEN parts[1]
    ELSE parts[1] \o d \o Join(Tail(parts), d)

EventMarker == <<"e", "v", "e", "n", "t", ":">>
DataMarker == <<"d", "a", "t", "a", ":">>
Blank == <<"\n", "\n">>
Newline == <<"\n">>
MessageType == <<"m", "e", "s", "s", "a", "g", "e">>
ProgressType == <<"p", "r", "o", "g", "r", "e", "s", "s">>
DoneType == <<"d", "o", "n", "e">>

(* for (const line of lines): the event type the last event: line names,     *)
(* and the data: lines in order                                              *)
RECURSIVE EventTypeOf(_, _)
EventTypeOf(lines, eventType) ==
    IF lines = <<>> THEN eventType
    ELSE EventTypeOf(Tail(lines),
                     IF StartsWith(lines[1], EventMarker)
                     THEN Trim(Slice(lines[1], 6)) ELSE eventType)

RECURSIVE DataLinesOf(_)
DataLinesOf(lines) ==
    IF lines = <<>> THEN <<>>
    ELSE (IF ~StartsWith(lines[1], EventMarker) /\ StartsWith(lines[1], DataMarker)
          THEN <<Slice(lines[1], 5)>> ELSE <<>>) \o DataLinesOf(Tail(lines))

\* dataLines.join('\n').trim()
EventDataOf(lines) == Trim(Join(DataLinesOf(lines), Newline))

(* switch (eventType): the callbacks one event record invokes; progress      *)
(* tells whether onProgress is registered                                    *)
Dispatch(lines, progress) ==
    LET eventType == EventTypeOf(lines, MessageType)
        eventData == EventDataOf(lines)
    IN  IF eventData = <<>> THEN <<>>
        ELSE IF eventType = ProgressType
             THEN IF progress THEN <<Call("onProgress", None, eventData)>> ELSE <<>>
        ELSE IF eventType = DoneType
             THEN IF JsonValid(eventData)
                  THEN <<Call("onSuccess", "json", JsonValue(eventData))>>
                  ELSE <<Call("onError", "sse-parse", <<>>)>>
        ELSE <<>>

\* the body of for (let i = 0; i < events.length - 1; i++)
LoopEvent(record, progress) ==
    LET eventText == Trim(record)
    IN  IF eventText = <<>> THEN <<>> ELSE Dispatch(Split(eventText, Newline), progress)

\* a loop that a 'done' event whose data is not JSON ends
RECURSIVE LoopEventsUntilError(_, _)
LoopEventsUntilError(events, progress) ==
    IF Len(events) <= 1 THEN <<>>
    ELSE LET first == LoopEvent(events[1], progress)
         IN  IF \E i \in 1..Len(first) : first[i].cb = "onError"
             THEN first
             ELSE first \o LoopEventsUntilError(Tail(events), progress)

\* for (let i = 0; i < events.length - 1; i++)
RECURSIVE LoopEvents(_, _)
LoopEvents(events, progress) ==
    IF Len(events) <= 1 THEN <<>>
    ELSE LoopEvent(events[1], progress) \o LoopEvents(Tail(events), progress)

\* _processFinalSseEvent, under its caller's if (eventBuffer.trim())
FinalEvent(buffer, progress) ==
    IF Trim(buffer) = <<>> THEN <<>> ELSE Dispatch(Split(buffer, Newline), progress)

\* one turn of while (true) for a chunk: the callbacks, and the new eventBuffer
ChunkCalls(buffer, chunk, progress) ==
    LoopEvents(Split(buffer \o Decode(chunk), Blank), progress)

\* a turn that keeps the records it has parsed in the buffer
ChunkBufferKeepsAll(buffer, chunk) == buffer \o Decode(chunk)

\* eventBuffer = events[events.length - 1]
ChunkBuffer(buffer, chunk) ==
    LET events == Split(buffer \o Decode(chunk), Blank) IN events[Len(events)]

\* ---------------------------------------------------------------- configuration
(* formConfig = { ...defaults, ...options }.  cache is FALSE (off), TRUE     *)
(* (kept for ever: cacheSecs = 0) or a number of seconds (cacheSecs > 0).    *)
(* The hooks validate, beforeSend, setLoadingState, resetLoadingState,       *)
(* onSuccess and onError are registered; what validate and beforeSend return *)
(* is an input of each submit event.  onProgress may be null.                *)
AsyncConfigs ==
    [async : {TRUE}, sse : BOOLEAN, timeout : {0, 1}, retryCount : 0..MaxRetry,
     cache : {TRUE}, cacheSecs : {0, 1}, onProgress : BOOLEAN]
    \cup
    [async : {TRUE}, sse : BOOLEAN, timeout : {0, 1}, retryCount : 0..MaxRetry,
     cache : {FALSE}, cacheSecs : {0}, onProgress : BOOLEAN]

\* the defaults: async false, and nothing else of the configuration is read
defaults ==
    [async |-> FALSE, sse |-> FALSE, timeout |-> 0, retryCount |-> 0,
     cache |-> FALSE, cacheSecs |-> 0, onProgress |-> FALSE]

\* configurations with async false: the defaults, and one with every option on
SyncConfigs ==
    {defaults,
     [defaults EXCEPT !.cache = TRUE, !.retryCount = MaxRetry, !.timeout = 1,
                      !.onProgress = TRUE]}

Configs == AsyncConfigs \cup SyncConfigs

\* ---------------------------------------------------------------- payload
(* new FormData(formElement): one entry, a text field or a file.            *)
Payloads ==
    { [name |-> "test", file |-> FALSE, size |-> 0],
      [name |-> "file", file |-> TRUE, size |-> 0],
      [name |-> "file", file |-> TRUE, size |-> FileSize] }

\* FormData.prototype.hasFiles
hasFiles(p) == p.file

\* JSON.stringify([...requestData.entries()]): a File serialises as {}
EntriesJson(p) == <<p.name, IF p.file THEN "{}" ELSE "value">>

\* `${requestMethod}:${formElement.action}:${JSON.stringify(entries)}`
CacheKeyOf(f, p) == <<"post", f, EntriesJson(p)>>

CacheKeys == { CacheKeyOf(f, p) : f \in Forms, p \in Payloads }

\* ---------------------------------------------------------------- responses
JSON == "application/json"
SSE == "text/event-stream"
HTML == "text/html"

Bodies == { <<>>, <<"0">>, <<"{", "}">> }

(* What fetch resolves with.  A 3xx response carries a Location header or   *)
(* none; a response of another status carries none.                         *)
Responses ==
    [status : {200, 500}, ctype : {JSON}, partial : BOOLEAN,
     location : {None}, body : Bodies]
    \cup
    [status : {200, 500}, ctype : {HTML}, partial : BOOLEAN,
     location : {None}, body : {<<>>, <<"{", "}">>}]
    \cup
    [status : {302}, ctype : {HTML}, partial : {FALSE},
     location : {None, "/next"}, body : {<<>>}]

(* The event streams a text/event-stream response carries, as bytes: a done  *)
(* event; a done event whose data is not JSON, then a progress event with no *)
(* closing blank line; a progress event whose data has a two-byte character. *)
SseDoneStream == <<"e", "v", "e", "n", "t", ":", "d", "o", "n", "e", "\n", "d", "a", "t", "a", ":", "{", "}", "\n", "\n">>
SseBadThenProgress == <<"e", "v", "e", "n", "t", ":", "d", "o", "n", "e", "\n", "d", "a", "t", "a", ":", "x", "\n", "\n", "e", "v", "e", "n", "t", ":", "p", "r", "o", "g", "r", "e", "s", "s", "\n", "d", "a", "t", "a", ":", "1">>
SseAccentStream == <<"e", "v", "e", "n", "t", ":", "p", "r", "o", "g", "r", "e", "s", "s", "\n", "d", "a", "t", "a", ":", "C3", "A9", "\n", "\n">>

SseBodies == {SseDoneStream, SseBadThenProgress, SseAccentStream}

\* the byte lengths of the body proxyFetch reads
ProxyBodyLens == 0..MaxBodyLen

NoResponse ==
    [status |-> 0, ctype |-> None, partial |-> FALSE, location |-> None, body |-> <<>>]

\* Response.ok
ResponseOk(r) == r.status >= 200 /\ r.status <= 299

\* ---------------------------------------------------------------- state
VARIABLES
    cfg,              \* formConfig of each form (fixed by Gnex.form)
    isProcessing,     \* closure flag of _setupFormHandler
    retryAttempts,    \* closure counter of _setupFormHandler
    abortControllers, \* keys of Gnex._abortControllers
    ctrlAborted,      \* abortController.signal.aborted, for the controller of the
                      \* running submission (nothing reads it once the handler ended)
    responseCache,    \* Gnex._responseCache: key -> entry, or NoEntry
    now,              \* Date.now()
    pc,               \* where the submit handler of each form is suspended
    frames,           \* activations of executeSubmission that await a retry
    sig,              \* reason combinedSignal was aborted with: none, abort, timeout
    resp,             \* the response being decoded
    cacheKey,         \* cacheKey of the running submission
    bodyRest,         \* bytes of the response body not yet read by the reader
    eventBuffer,      \* eventBuffer of _processSseStream
    uploadedBytes,    \* uploadedBytes of _handleProgressTracking
    totalSize,        \* totalSize of _handleProgressTracking
    calls,            \* callbacks invoked by the running submission, in order
    netCalls,         \* fetch calls issued by the running submission
    submits,          \* submit events delivered so far
    sub,              \* history of the running submission: failed attempts, how
                      \* it ended, whether the proxy ran, the event stream it read
    lastResponse,     \* per cache key, the last response a submission decoded
    ticks,            \* clock advances so far
    strictMode,       \* gnex.js is built as strict code (an ES module)
    type,             \* gnex.js: the variable `type` no scope of submitForm declares
    data,             \* gnex.js: the variable `data` no scope of submitForm declares
    isSubmitting,     \* gnex.js: closure flag of setupForm
    controllers,      \* gnex.js: keys of Gnex._controllers
    jsPc,             \* gnex.js: where submitForm of each form is suspended
    response,         \* gnex.js: the response submitForm got from fetch
    jsCalls           \* gnex.js: callbacks invoked by the latest submission

vars ==
    <<cfg, isProcessing, retryAttempts, abortControllers, ctrlAborted, responseCache,
      now, pc, frames, sig, resp, cacheKey, bodyRest, eventBuffer, uploadedBytes,
      totalSize, calls, netCalls, submits, sub, lastResponse, ticks,
      strictMode, type, data, isSubmitting, controllers, jsPc, response, jsCalls>>

(* The history of a form no submission of which was accepted yet.  fails:    *)
(* attempts that ended in catch with a retryable error; outcome: how the     *)
(* submission ended (running: it has not); prev: the outcome of the          *)
(* submission before it; proxy: proxyFetch ran; stream: the event stream it  *)
(* was answered with; dropped: submit events ignored while it was in         *)
(* progress; decoded: whether the data it decoded is truthy; cancelled:      *)
(* Gnex.cancel was called while its fetch was pending; response: status and  *)
(* headers of the response that was classified; decodeFailed: an attempt     *)
(* failed after its fetch had resolved ok (response.json() or                *)
(* response.text() threw or rejected); beforeSend: what the beforeSend hook  *)
(* returned; cancels: the calls of Gnex.cancel that were counted.            *)
NoSubmission ==
    [fails |-> 0, outcome |-> None, prev |-> None, proxy |-> FALSE, stream |-> <<>>,
     dropped |-> 0, decoded |-> None, cancelled |-> FALSE,
     response |-> NoResponse, decodeFailed |-> FALSE,
     beforeSend |-> None, cancels |-> 0]

\* error.message of the errors the catch block of executeSubmission sees
NetworkError == <<"Failed to fetch">>
SyntaxError == <<"Unexpected token">>
HttpError(r) == <<"HTTP", ToString(r.status)>>

\* status and headers of a response
HeadersOf(r) == [r EXCEPT !.body = <<>>]

\* a 3xx status
IsRedirect(r) == r.status >= 300 /\ r.status < 400

NoEntry == [responseType |-> None, data |-> <<>>, expires |-> 0]

\* Infinity, as a timestamp no clock value reaches
Infinity == (MaxTicks + 1) * TickMs + 1000000

\* before any submit event of the forms of Gnex.form
InitForms ==
    /\ cfg \in [Forms -> Configs]
    /\ isProcessing = [f \in Forms |-> FALSE]
    /\ retryAttempts = [f \in Forms |-> 0]
    /\ abortControllers = {}
    /\ ctrlAborted = [f \in Forms |-> FALSE]
    /\ responseCache = [k \in CacheKeys |-> NoEntry]
    /\ now = 0
    /\ pc = [f \in Forms |-> "idle"]
    /\ frames = [f \in Forms |-> 0]
    /\ sig = [f \in Forms |-> None]
    /\ resp = [f \in Forms |-> NoResponse]
    /\ cacheKey = [f \in Forms |-> CacheKeyOf(f, CHOOSE p \in Payloads : ~p.file)]
    /\ bodyRest = [f \in Forms |-> <<>>]
    /\ eventBuffer = [f \in Forms |-> <<>>]
    /\ uploadedBytes = [f \in Forms |-> 0]
    /\ totalSize = [f \in Forms |-> 0]
    /\ calls = [f \in Forms |-> <<>>]
    /\ netCalls = [f \in Forms |-> 0]
    /\ submits = [f \in Forms |-> 0]
    /\ sub = [f \in Forms |-> NoSubmission]
    /\ lastResponse = [k \in CacheKeys |-> NoEntry]
    /\ ticks = 0

\* the forms Gnex.init of gnex.js was given
JsForms == {"a", "b"}

\* before any submit event of the forms of Gnex.init
InitJs ==
    /\ type = None
    /\ data = <<>>
    /\ isSubmitting = [f \in JsForms |-> FALSE]
    /\ controllers = {}
    /\ jsPc = [f \in JsForms |-> "idle"]
    /\ response = [f \in JsForms |-> NoResponse]
    /\ jsCalls = [f \in JsForms |-> <<>>]

Init == InitForms /\ InitJs /\ strictMode = FALSE

\* an entry guard that lets every submit event through
SubmitGuardOpen(f) == FALSE

\* ---------------------------------------------------------------- pieces of the handler
\* if (isProcessing) { event.preventDefault(); return; }
SubmitGuard(f) == isProcessing[f]

\* if (retryAttempts < formConfig.retryCount)
ShouldRetry(f) == retryAttempts[f] < cfg[f].retryCount

\* formConfig.cache && this._responseCache.has(cacheKey)
CacheHas(f, k) == cfg[f].cache /\ responseCache[k] # NoEntry

\* a freshness test that still serves an entry at the instant it expires
CacheFreshInclusive(k) == now <= responseCache[k].expires

\* Date.now() < cachedResponse.expires
CacheFresh(k) == now < responseCache[k].expires

\* typeof cache === 'number' ? Date.now() + cache * 1000 : Infinity
ExpiresAt(f) == IF cfg[f].cacheSecs > 0 THEN now + cfg[f].cacheSecs * 1000 ELSE Infinity

\* a test for the proxy that does not look at sse
WantsProgressWithSse(f, p) == cfg[f].onProgress /\ hasFiles(p)

\* formConfig.onProgress && requestData.hasFiles() && !formConfig.sse
WantsProgress(f, p) == cfg[f].onProgress /\ hasFiles(p) /\ ~cfg[f].sse

\* totalSize of _handleProgressTracking
TotalSizeOf(p) == IF p.file THEN p.size ELSE 0

\* formConfig.sse && contentType.includes('text/event-stream')
IsSseResponse(f, r) == cfg[f].sse /\ r.ctype = SSE

\* a classification that looks at X-Partial-View before the Content-Type
ResponseTypeHeaderFirst(r) ==
    IF r.partial THEN "x-html"
    ELSE IF r.ctype = JSON THEN "json"
    ELSE IF IsRedirect(r) THEN "redirect"
    ELSE "full-html"

\* the if/else chain that picks responseType
ResponseTypeOf(r) ==
    IF r.ctype = JSON THEN "json"
    ELSE IF r.partial THEN "x-html"
    ELSE IF IsRedirect(r) THEN "redirect"
    ELSE "full-html"

\* if (!formConfig.sse && responseType && responseData)
Delivers(f, truthy) == ~cfg[f].sse /\ truthy

\* error.name === 'TimeoutError' ? 'timeout' : 'aborted'
AbortKind(reason) == IF reason = "timeout" THEN "timeout" ELSE "aborted"

\* n invocations of resetLoadingState
RECURSIVE Resets(_)
Resets(n) == IF n = 0 THEN <<>> ELSE <<Call("resetLoadingState", None, <<>>)>> \o Resets(n - 1)

\* the state of gnex.js, which no step of part_000 changes
UnchangedJs ==
    UNCHANGED <<strictMode, type, data, isSubmitting, controllers, jsPc, response, jsCalls>>

\* the variables no step of a handler changes
UnchangedEnv == UNCHANGED <<cfg, now, ticks>> /\ UnchangedJs

\* the reader state of the SSE parser and of the progress proxy
UnchangedStream == UNCHANGED <<bodyRest, eventBuffer, uploadedBytes, totalSize>>

(* finally { isProcessing = false; _abortControllers.delete(form);          *)
(* resetLoadingState(form) }, run by the activation that settles and then   *)
(* by every activation that awaited it in its catch block.                  *)
Finally(f, log) ==
    /\ isProcessing' = [isProcessing EXCEPT ![f] = FALSE]
    /\ abortControllers' = abortControllers \ {f}
    /\ calls' = [calls EXCEPT ![f] = log \o Resets(frames[f])]
    /\ pc' = [pc EXCEPT ![f] = "idle"]
    /\ frames' = [frames EXCEPT ![f] = 0]
    /\ sig' = [sig EXCEPT ![f] = None]
    /\ resp' = [resp EXCEPT ![f] = NoResponse]
    /\ ctrlAborted' = [ctrlAborted EXCEPT ![f] = FALSE]

(* a catch block that clears isProcessing before it retries                  *)
CatchErrorReleasesFlag(f, hist, message) ==
    IF retryAttempts[f] < cfg[f].retryCount
    THEN /\ retryAttempts' = [retryAttempts EXCEPT ![f] = @ + 1]
         /\ frames' = [frames EXCEPT ![f] = @ + 1]
         /\ netCalls' = [netCalls EXCEPT ![f] = @ + 1]
         /\ pc' = [pc EXCEPT ![f] = "fetch"]
         /\ sig' = [sig EXCEPT ![f] = IF ctrlAborted[f] THEN "abort" ELSE None]
         /\ resp' = [resp EXCEPT ![f] = NoResponse]
         /\ sub' = [sub EXCEPT ![f] = [hist EXCEPT !.fails = @ + 1]]
         /\ isProcessing' = [isProcessing EXCEPT ![f] = FALSE]
         /\ UNCHANGED <<abortControllers, ctrlAborted, calls>>
    ELSE /\ Finally(f, Append(calls[f], Call("onError", "request", message)))
         /\ sub' = [sub EXCEPT ![f] = [hist EXCEPT !.fails = @ + 1, !.outcome = "request"]]
         /\ UNCHANGED <<retryAttempts, netCalls>>

(* catch (error) for an error that is neither a TimeoutError nor an         *)
(* AbortError: retry by a nested executeSubmission, which issues the next   *)
(* fetch at once, or report 'request' and fall into finally.                *)
CatchError(f, hist, message) ==
    IF ShouldRetry(f)
    THEN /\ retryAttempts' = [retryAttempts EXCEPT ![f] = @ + 1]
         /\ frames' = [frames EXCEPT ![f] = @ + 1]
         /\ netCalls' = [netCalls EXCEPT ![f] = @ + 1]
         /\ pc' = [pc EXCEPT ![f] = "fetch"]
         /\ sig' = [sig EXCEPT ![f] = IF ctrlAborted[f] THEN "abort" ELSE None]
         /\ resp' = [resp EXCEPT ![f] = NoResponse]
         /\ sub' = [sub EXCEPT ![f] = [hist EXCEPT !.fails = @ + 1]]
         /\ UNCHANGED <<isProcessing, abortControllers, ctrlAborted, calls>>
    ELSE /\ Finally(f, Append(calls[f], Call("onError", "request", message)))
         /\ sub' = [sub EXCEPT ![f] = [hist EXCEPT !.fails = @ + 1, !.outcome = "request"]]
         /\ UNCHANGED <<retryAttempts, netCalls>>

(* The tail of the try block: store into the cache, call onSuccess, and     *)
(* fall into finally.                                                       *)
Deliver(f, hist, kind, responseData, truthy) ==
    /\ responseCache' =
         IF Delivers(f, truthy) /\ cfg[f].cache
         THEN [responseCache EXCEPT ![cacheKey[f]] =
                  [responseType |-> kind, data |-> responseData, expires |-> ExpiresAt(f)]]
         ELSE responseCache
    /\ Finally(f, IF Delivers(f, truthy)
                  THEN Append(calls[f], Call("onSuccess", kind, responseData))
                  ELSE calls[f])
    /\ sub' = [sub EXCEPT ![f] =
                  [hist EXCEPT !.outcome = "delivered",
                               !.decoded = IF truthy THEN "truthy" ELSE "falsy"]]
    /\ lastResponse' =
         IF cfg[f].cache
         THEN [lastResponse EXCEPT ![cacheKey[f]] =
                  [responseType |-> kind, data |-> responseData, expires |-> ExpiresAt(f)]]
         ELSE lastResponse
    /\ UNCHANGED <<retryAttempts, netCalls>>

\* the history a submission accepted by the entry guard starts with
Begun(f, outcome) == [NoSubmission EXCEPT !.outcome = outcome, !.prev = sub[f].outcome]

\* the history of a submission whose beforeSend hook returned v
Sent(f, outcome, v) == [Begun(f, outcome) EXCEPT !.beforeSend = v]

\* values a beforeSend hook may return, and the two the main specification draws
BeforeSendReturns == {"false", "undefined", "null", "0", "true"}
MainReturns == {"false", "undefined"}

\* a veto that takes every falsy return value for false
VetoesFalsy(v) == v \in {"false", "undefined", "null", "0"}

\* formConfig.beforeSend(...) === false
Vetoes(v) == v = "false"

\* ---------------------------------------------------------------- the submit event
\* what the handler calls before it suspends or returns, up to setLoadingState
HookCalls(n) ==
    SubSeq(<<Call("validate", None, <<>>), Call("beforeSend", None, <<>>),
             Call("setLoadingState", None, <<>>)>>, 1, n)

\* a submit event while a submission is in progress: ignored
SubmitDropped(f) ==
    /\ submits[f] < MaxSubmits
    /\ SubmitGuard(f)
    /\ submits' = [submits EXCEPT ![f] = @ + 1]
    /\ UNCHANGED <<isProcessing, retryAttempts, abortControllers, ctrlAborted,
                   responseCache, pc, frames, sig, resp, cacheKey, calls, netCalls,
                   lastResponse>>
    /\ sub' = [sub EXCEPT ![f].dropped = @ + 1]
    /\ UnchangedEnv /\ UnchangedStream

\* a validation failure that returns without clearing isProcessing
SubmitInvalidStuck(f) ==
    /\ submits[f] < MaxSubmits
    /\ ~isProcessing[f]
    /\ submits' = [submits EXCEPT ![f] = @ + 1]
    /\ isProcessing' = [isProcessing EXCEPT ![f] = TRUE]
    /\ calls' = [calls EXCEPT ![f] = HookCalls(1)]
    /\ sub' = [sub EXCEPT ![f] = Begun(f, "invalid")]
    /\ netCalls' = [netCalls EXCEPT ![f] = 0]
    /\ UNCHANGED <<retryAttempts, abortControllers, ctrlAborted, responseCache,
                   pc, frames, sig, resp, cacheKey, lastResponse>>
    /\ UnchangedEnv /\ UnchangedStream

\* validate(formElement) returns false
SubmitInvalid(f) ==
    /\ submits[f] < MaxSubmits
    /\ ~SubmitGuard(f)
    /\ submits' = [submits EXCEPT ![f] = @ + 1]
    /\ isProcessing' = [isProcessing EXCEPT ![f] = FALSE]
    /\ calls' = [calls EXCEPT ![f] = HookCalls(1)]
    /\ sub' = [sub EXCEPT ![f] = Begun(f, "invalid")]
    /\ UNCHANGED lastResponse
    /\ netCalls' = [netCalls EXCEPT ![f] = 0]
    /\ UNCHANGED <<retryAttempts, abortControllers, ctrlAborted, responseCache,
                   pc, frames, sig, resp, cacheKey>>
    /\ UnchangedEnv /\ UnchangedStream

\* beforeSend(formElement, requestData, requestOptions) returns false
SubmitVetoed(f, v) ==
    /\ submits[f] < MaxSubmits
    /\ ~SubmitGuard(f)
    /\ Vetoes(v)
    /\ submits' = [submits EXCEPT ![f] = @ + 1]
    /\ abortControllers' = abortControllers \cup {f}
    /\ ctrlAborted' = [ctrlAborted EXCEPT ![f] = FALSE]
    /\ isProcessing' = [isProcessing EXCEPT ![f] = FALSE]
    /\ calls' = [calls EXCEPT ![f] = HookCalls(2) \o Resets(1)]
    /\ sub' = [sub EXCEPT ![f] = Sent(f, "vetoed", v)]
    /\ UNCHANGED lastResponse
    /\ netCalls' = [netCalls EXCEPT ![f] = 0]
    /\ UNCHANGED <<retryAttempts, responseCache, pc, frames, sig, resp, cacheKey>>
    /\ UnchangedEnv /\ UnchangedStream

\* a synchronous submission that calls submit() and goes on to executeSubmission
SubmitNativeFallsThrough(f, v) ==
    /\ submits[f] < MaxSubmits
    /\ ~isProcessing[f]
    /\ ~cfg[f].async
    /\ submits' = [submits EXCEPT ![f] = @ + 1]
    /\ abortControllers' = abortControllers \cup {f}
    /\ ctrlAborted' = [ctrlAborted EXCEPT ![f] = FALSE]
    /\ isProcessing' = [isProcessing EXCEPT ![f] = TRUE]
    /\ calls' = [calls EXCEPT ![f] = Append(HookCalls(3), Call("submit", None, <<>>))]
    /\ sub' = [sub EXCEPT ![f] = Sent(f, "native", v)]
    /\ netCalls' = [netCalls EXCEPT ![f] = 1]
    /\ pc' = [pc EXCEPT ![f] = "fetch"]
    /\ frames' = [frames EXCEPT ![f] = 1]
    /\ UNCHANGED <<retryAttempts, responseCache, sig, resp, cacheKey, lastResponse>>
    /\ UnchangedEnv /\ UnchangedStream

\* !formConfig.async: formElement.submit() and return
SubmitNative(f, v) ==
    /\ submits[f] < MaxSubmits
    /\ ~SubmitGuard(f)
    /\ ~Vetoes(v)
    /\ ~cfg[f].async
    /\ submits' = [submits EXCEPT ![f] = @ + 1]
    /\ abortControllers' = abortControllers \cup {f}
    /\ ctrlAborted' = [ctrlAborted EXCEPT ![f] = FALSE]
    /\ isProcessing' = [isProcessing EXCEPT ![f] = TRUE]
    /\ calls' = [calls EXCEPT ![f] = Append(HookCalls(3), Call("submit", None, <<>>))]
    /\ sub' = [sub EXCEPT ![f] = Sent(f, "native", v)]
    /\ UNCHANGED lastResponse
    /\ netCalls' = [netCalls EXCEPT ![f] = 0]
    /\ UNCHANGED <<retryAttempts, responseCache, pc, frames, sig, resp, cacheKey>>
    /\ UnchangedEnv /\ UnchangedStream

\* a fresh cache entry: onSuccess with the cached response, no fetch
SubmitCacheHit(f, p, v) ==
    /\ submits[f] < MaxSubmits
    /\ ~SubmitGuard(f)
    /\ ~Vetoes(v)
    /\ cfg[f].async
    /\ CacheHas(f, CacheKeyOf(f, p)) /\ CacheFresh(CacheKeyOf(f, p))
    /\ submits' = [submits EXCEPT ![f] = @ + 1]
    /\ abortControllers' = abortControllers \cup {f}
    /\ ctrlAborted' = [ctrlAborted EXCEPT ![f] = FALSE]
    /\ isProcessing' = [isProcessing EXCEPT ![f] = FALSE]
    /\ cacheKey' = [cacheKey EXCEPT ![f] = CacheKeyOf(f, p)]
    /\ calls' = [calls EXCEPT ![f] =
          HookCalls(3)
          \o <<Call("onSuccess", responseCache[CacheKeyOf(f, p)].responseType,
                    responseCache[CacheKeyOf(f, p)].data)>>
          \o Resets(1)]
    /\ sub' = [sub EXCEPT ![f] = Sent(f, "cache", v)]
    /\ UNCHANGED lastResponse
    /\ netCalls' = [netCalls EXCEPT ![f] = 0]
    /\ UNCHANGED <<retryAttempts, responseCache, pc, frames, sig, resp>>
    /\ UnchangedEnv /\ UnchangedStream

\* the cache lookup of a submission that goes on to the network
CacheAfterMiss(f, k) ==
    IF CacheHas(f, k) /\ ~CacheFresh(k)
    THEN [responseCache EXCEPT ![k] = NoEntry]
    ELSE responseCache

\* no fresh cache entry, no progress tracking: executeSubmission issues fetch
SubmitFetch(f, p, v) ==
    /\ submits[f] < MaxSubmits
    /\ ~SubmitGuard(f)
    /\ ~Vetoes(v)
    /\ cfg[f].async
    /\ ~(CacheHas(f, CacheKeyOf(f, p)) /\ CacheFresh(CacheKeyOf(f, p)))
    /\ ~(WantsProgress(f, p) /\ TotalSizeOf(p) > 0)
    /\ submits' = [submits EXCEPT ![f] = @ + 1]
    /\ abortControllers' = abortControllers \cup {f}
    /\ ctrlAborted' = [ctrlAborted EXCEPT ![f] = FALSE]
    /\ isProcessing' = [isProcessing EXCEPT ![f] = TRUE]
    /\ cacheKey' = [cacheKey EXCEPT ![f] = CacheKeyOf(f, p)]
    /\ responseCache' = CacheAfterMiss(f, CacheKeyOf(f, p))
    /\ calls' = [calls EXCEPT ![f] = HookCalls(3)]
    /\ netCalls' = [netCalls EXCEPT ![f] = 1]
    /\ pc' = [pc EXCEPT ![f] = "fetch"]
    /\ frames' = [frames EXCEPT ![f] = 1]
    /\ sig' = [sig EXCEPT ![f] = None]
    /\ resp' = [resp EXCEPT ![f] = NoResponse]
    /\ sub' = [sub EXCEPT ![f] = Sent(f, "running", v)]
    /\ UNCHANGED <<retryAttempts, lastResponse>>
    /\ UnchangedEnv /\ UnchangedStream

\* ---------------------------------------------------------------- the network call settles
\* fetch rejects: a network error
FetchRejects(f) ==
    /\ pc[f] = "fetch" /\ sig[f] = None
    /\ CatchError(f, sub[f], NetworkError)
    /\ UNCHANGED <<responseCache, cacheKey, submits, lastResponse>>
    /\ UnchangedEnv /\ UnchangedStream

\* fetch resolves with a response that is not ok: throw new Error(`HTTP ${status}`)
FetchNotOk(f, r) ==
    /\ pc[f] = "fetch" /\ sig[f] = None
    /\ ~ResponseOk(r)
    /\ CatchError(f, sub[f], HttpError(r))
    /\ UNCHANGED <<responseCache, cacheKey, submits, lastResponse>>
    /\ UnchangedEnv /\ UnchangedStream

(* fetch resolves ok.  A 3xx status takes the Location header as the data   *)
(* and goes on without a suspension; every other response suspends on        *)
(* await response.json() or await response.text().                           *)
FetchOk(f, r) ==
    /\ pc[f] = "fetch" /\ sig[f] = None
    /\ ResponseOk(r)
    /\ ~IsSseResponse(f, r)
    /\ IF ResponseTypeOf(r) = "redirect"
       THEN /\ Deliver(f, [sub[f] EXCEPT !.response = HeadersOf(r)], "redirect",
                       IF r.location = None THEN <<"unknown">> ELSE <<r.location>>, TRUE)
            /\ UNCHANGED <<cacheKey, submits>>
       ELSE /\ pc' = [pc EXCEPT ![f] = "body"]
            /\ resp' = [resp EXCEPT ![f] = r]
            /\ UNCHANGED <<isProcessing, retryAttempts, abortControllers, ctrlAborted,
                           responseCache, frames, sig, cacheKey, calls, netCalls,
                           submits, sub, lastResponse>>
    /\ UnchangedEnv /\ UnchangedStream

\* response.json() or response.text() resolves, or json() throws a SyntaxError
BodyResolves(f) ==
    /\ pc[f] = "body" /\ sig[f] = None
    /\ LET r == resp[f]
           kind == ResponseTypeOf(r)
       IN  IF kind = "json"
           THEN IF JsonValid(r.body)
                THEN /\ Deliver(f, [sub[f] EXCEPT !.response = HeadersOf(r)],
                                kind, JsonValue(r.body), JsonTruthy(r.body))
                     /\ UNCHANGED <<cacheKey, submits>>
                ELSE /\ CatchError(f, [sub[f] EXCEPT !.decodeFailed = TRUE], SyntaxError)
                     /\ UNCHANGED <<responseCache, cacheKey, submits, lastResponse>>
           ELSE /\ Deliver(f, [sub[f] EXCEPT !.response = HeadersOf(r)],
                           kind, r.body, TextTruthy(r.body))
                /\ UNCHANGED <<cacheKey, submits>>
    /\ UnchangedEnv /\ UnchangedStream

\* the body read fails: a network error while the body arrives
BodyRejects(f) ==
    /\ pc[f] = "body" /\ sig[f] = None
    /\ CatchError(f, [sub[f] EXCEPT !.decodeFailed = TRUE], NetworkError)
    /\ UNCHANGED <<responseCache, cacheKey, submits, lastResponse>>
    /\ UnchangedEnv /\ UnchangedStream

\* the pending fetch or body read rejects with the signal's reason
AbortSettles(f) ==
    /\ pc[f] \in {"fetch", "body"} /\ sig[f] # None
    /\ Finally(f, Append(calls[f], Call("onError", AbortKind(sig[f]), <<>>)))
    /\ sub' = [sub EXCEPT ![f].outcome = AbortKind(sig[f])]
    /\ UNCHANGED <<retryAttempts, netCalls, responseCache, cacheKey, submits,
                   lastResponse>>
    /\ UnchangedEnv /\ UnchangedStream

\* ---------------------------------------------------------------- _processSseStream
\* fetch resolves ok with an event stream: _processSseStream gets the reader
FetchSse(f, body) ==
    /\ pc[f] = "fetch" /\ sig[f] = None
    /\ cfg[f].sse
    /\ pc' = [pc EXCEPT ![f] = "sse"]
    /\ bodyRest' = [bodyRest EXCEPT ![f] = body]
    /\ eventBuffer' = [eventBuffer EXCEPT ![f] = <<>>]
    /\ sub' = [sub EXCEPT ![f].stream = body]
    /\ UNCHANGED <<isProcessing, retryAttempts, abortControllers, ctrlAborted,
                   responseCache, frames, sig, resp, cacheKey, uploadedBytes,
                   totalSize, calls, netCalls, submits, lastResponse>>
    /\ UnchangedEnv

\* reader.read() resolves with a chunk of n bytes
SseRead(f, n) ==
    /\ pc[f] = "sse" /\ sig[f] = None
    /\ n \in 1..Len(bodyRest[f])
    /\ LET chunk == SubSeq(bodyRest[f], 1, n)
       IN  /\ calls' = [calls EXCEPT ![f] =
                 @ \o ChunkCalls(eventBuffer[f], chunk, cfg[f].onProgress)]
           /\ eventBuffer' = [eventBuffer EXCEPT ![f] = ChunkBuffer(@, chunk)]
    /\ bodyRest' = [bodyRest EXCEPT ![f] = SubSeq(@, n + 1, Len(@))]
    /\ UNCHANGED <<isProcessing, retryAttempts, abortControllers, ctrlAborted,
                   responseCache, pc, frames, sig, resp, cacheKey, uploadedBytes,
                   totalSize, netCalls, submits, sub, lastResponse>>
    /\ UnchangedEnv

(* The chunk sizes of a stream that arrives whole or in two halves.          *)
TwoChunks(f) ==
    {Len(bodyRest[f])} \cup
    (IF bodyRest[f] = sub[f].stream THEN {(Len(bodyRest[f]) + 1) \div 2} ELSE {})

(* reader.read() resolves with done: the residual buffer is dispatched,      *)
(* resolve() ends the await of executeSubmission, which returns into finally *)
SseDone(f) ==
    /\ pc[f] = "sse" /\ sig[f] = None
    /\ bodyRest[f] = <<>>
    /\ Finally(f, calls[f] \o FinalEvent(eventBuffer[f], cfg[f].onProgress))
    /\ eventBuffer' = [eventBuffer EXCEPT ![f] = <<>>]
    /\ sub' = [sub EXCEPT ![f].outcome = "sse"]
    /\ UNCHANGED <<retryAttempts, responseCache, cacheKey, bodyRest, uploadedBytes,
                   totalSize, netCalls, submits, lastResponse>>
    /\ UnchangedEnv

(* reader.read() rejects, with a network error or with the reason of the     *)
(* aborted signal: processStream rejects, and the promise _processSseStream  *)
(* returned is never resolved; executeSubmission stays at its await.         *)
SseReadRejects(f) ==
    /\ pc[f] = "sse"
    /\ pc' = [pc EXCEPT ![f] = "hung"]
    /\ bodyRest' = [bodyRest EXCEPT ![f] = <<>>]
    /\ eventBuffer' = [eventBuffer EXCEPT ![f] = <<>>]
    /\ UNCHANGED <<isProcessing, retryAttempts, abortControllers, ctrlAborted,
                   responseCache, frames, sig, resp, cacheKey, calls, netCalls, submits,
                   sub, lastResponse, uploadedBytes, totalSize>>
    /\ UnchangedEnv

\* ---------------------------------------------------------------- _handleProgressTracking
\* Math.round((uploadedBytes / totalSize) * 100) without the cap at 100
ProgressPercentUncapped(uploaded, total) == (200 * uploaded + total) \div (2 * total)

\* Math.min(100, Math.round((uploadedBytes / totalSize) * 100))
ProgressPercent(uploaded, total) == Min(100, (200 * uploaded + total) \div (2 * total))

\* an onProgress report of the proxy
Progress(pct) == [cb |-> "onProgress", kind |-> None, data |-> <<>>, pct |-> pct]

(* no fresh cache entry, progress wanted and totalSize > 0: proxyFetch       *)
(* issues its fetch with requestOptions.signal detached                      *)
SubmitProxy(f, p, v) ==
    /\ submits[f] < MaxSubmits
    /\ ~SubmitGuard(f)
    /\ ~Vetoes(v)
    /\ cfg[f].async
    /\ ~(CacheHas(f, CacheKeyOf(f, p)) /\ CacheFresh(CacheKeyOf(f, p)))
    /\ WantsProgress(f, p) /\ TotalSizeOf(p) > 0
    /\ submits' = [submits EXCEPT ![f] = @ + 1]
    /\ abortControllers' = abortControllers \cup {f}
    /\ ctrlAborted' = [ctrlAborted EXCEPT ![f] = FALSE]
    /\ isProcessing' = [isProcessing EXCEPT ![f] = TRUE]
    /\ cacheKey' = [cacheKey EXCEPT ![f] = CacheKeyOf(f, p)]
    /\ responseCache' = CacheAfterMiss(f, CacheKeyOf(f, p))
    /\ calls' = [calls EXCEPT ![f] = HookCalls(3)]
    /\ netCalls' = [netCalls EXCEPT ![f] = 1]
    /\ pc' = [pc EXCEPT ![f] = "proxyFetch"]
    /\ frames' = [frames EXCEPT ![f] = 0]
    /\ sig' = [sig EXCEPT ![f] = None]
    /\ resp' = [resp EXCEPT ![f] = NoResponse]
    /\ totalSize' = [totalSize EXCEPT ![f] = TotalSizeOf(p)]
    /\ uploadedBytes' = [uploadedBytes EXCEPT ![f] = 0]
    /\ sub' = [sub EXCEPT ![f] = [Sent(f, "running", v) EXCEPT !.proxy = TRUE]]
    /\ UNCHANGED <<retryAttempts, bodyRest, eventBuffer, lastResponse>>
    /\ UnchangedEnv

\* the proxy's fetch resolves (its status is not looked at) with a body of len bytes
ProxyFetchResolves(f, len) ==
    /\ pc[f] = "proxyFetch"
    /\ pc' = [pc EXCEPT ![f] = "proxyRead"]
    /\ bodyRest' = [bodyRest EXCEPT ![f] = [i \in 1..len |-> "x"]]
    /\ UNCHANGED <<isProcessing, retryAttempts, abortControllers, ctrlAborted,
                   responseCache, frames, sig, resp, cacheKey, eventBuffer,
                   uploadedBytes, totalSize, calls, netCalls, submits, sub, lastResponse>>
    /\ UnchangedEnv

\* reader.read() of the proxy resolves with a chunk of n bytes
ProxyRead(f, n) ==
    /\ pc[f] = "proxyRead"
    /\ n \in 1..Len(bodyRest[f])
    /\ uploadedBytes' = [uploadedBytes EXCEPT ![f] = @ + n]
    /\ calls' = [calls EXCEPT ![f] =
          Append(@, Progress(ProgressPercent(uploadedBytes[f] + n, totalSize[f])))]
    /\ bodyRest' = [bodyRest EXCEPT ![f] = SubSeq(@, n + 1, Len(@))]
    /\ UNCHANGED <<isProcessing, retryAttempts, abortControllers, ctrlAborted,
                   responseCache, pc, frames, sig, resp, cacheKey, eventBuffer,
                   totalSize, netCalls, submits, sub, lastResponse>>
    /\ UnchangedEnv

(* reader.read() of the proxy resolves with done: the .then callback reads   *)
(* this._abortControllers.get(formElement).signal.  With the entry still     *)
(* there executeSubmission runs and issues its own fetch; with the entry     *)
(* removed by cancel the read throws a TypeError, the handler's promise      *)
(* rejects and executeSubmission is never called.                            *)
ProxyDone(f) ==
    /\ pc[f] = "proxyRead"
    /\ bodyRest[f] = <<>>
    /\ IF f \in abortControllers
       THEN /\ pc' = [pc EXCEPT ![f] = "fetch"]
            /\ frames' = [frames EXCEPT ![f] = 1]
            /\ netCalls' = [netCalls EXCEPT ![f] = @ + 1]
            /\ sig' = [sig EXCEPT ![f] = IF ctrlAborted[f] THEN "abort" ELSE None]
       ELSE /\ pc' = [pc EXCEPT ![f] = "hung"]
            /\ UNCHANGED <<frames, netCalls, sig>>
    /\ UNCHANGED <<isProcessing, retryAttempts, abortControllers, ctrlAborted,
                   responseCache, resp, cacheKey, calls, submits, sub, lastResponse>>
    /\ UnchangedEnv /\ UnchangedStream

(* the proxy's fetch or one of its reads rejects with a network error:       *)
(* proxyFetch() rejects, nothing catches it and the handler ends there       *)
ProxyRejects(f) ==
    /\ pc[f] \in {"proxyFetch", "proxyRead"}
    /\ pc' = [pc EXCEPT ![f] = "hung"]
    /\ bodyRest' = [bodyRest EXCEPT ![f] = <<>>]
    /\ UNCHANGED <<isProcessing, retryAttempts, abortControllers, ctrlAborted,
                   responseCache, frames, sig, resp, cacheKey, calls, netCalls, submits,
                   sub, lastResponse, eventBuffer, uploadedBytes, totalSize>>
    /\ UnchangedEnv

\* ---------------------------------------------------------------- cancel, timeout, clock
\* the suspension points that listen to combinedSignal
Listening(f) == pc[f] \in {"fetch", "body", "sse"}

\* a fetch of the submission has neither resolved nor rejected
FetchPending(f) == (pc[f] = "fetch" /\ sig[f] = None) \/ pc[f] = "proxyFetch"

\* a cancel that aborts the controller and leaves it registered
CancelKeepsHandle(f, n) ==
    /\ IF f \in abortControllers
       THEN /\ ctrlAborted' = [ctrlAborted EXCEPT ![f] = pc[f] # "idle"]
            /\ sig' = [sig EXCEPT ![f] =
                         IF Listening(f) /\ @ = None THEN "abort" ELSE @]
       ELSE UNCHANGED <<ctrlAborted, sig>>
    /\ sub' = [sub EXCEPT ![f].cancels = @ + n]
    /\ UNCHANGED <<cfg, isProcessing, retryAttempts, responseCache, now, pc, frames,
                   resp, cacheKey, calls, netCalls, submits, lastResponse, ticks,
                   abortControllers>>
    /\ UnchangedStream /\ UnchangedJs

\* Gnex.cancel(context), its call adding n to the count of the calls
CancelSteps(f, n) ==
    /\ IF f \in abortControllers
       THEN /\ ctrlAborted' = [ctrlAborted EXCEPT ![f] = pc[f] # "idle"]
            /\ abortControllers' = abortControllers \ {f}
            /\ sig' = [sig EXCEPT ![f] =
                         IF Listening(f) /\ @ = None THEN "abort" ELSE @]
       ELSE UNCHANGED <<ctrlAborted, abortControllers, sig>>
    /\ sub' = [sub EXCEPT ![f].cancelled = @ \/ (f \in abortControllers /\ FetchPending(f)),
                          ![f].cancels = @ + n]
    /\ UNCHANGED <<cfg, isProcessing, retryAttempts, responseCache, now, pc, frames,
                   resp, cacheKey, calls, netCalls, submits, lastResponse, ticks>>
    /\ UnchangedStream /\ UnchangedJs

\* Gnex.cancel(formElement)
Cancel(f) == CancelSteps(f, 0)

\* Gnex.cancel(formElement), counted
CancelCounted(f) == sub[f].cancels < MaxCancels /\ CancelSteps(f, 1)

\* AbortSignal.timeout(formConfig.timeout) fires
TimeoutFires(f) ==
    /\ cfg[f].timeout > 0
    /\ Listening(f) /\ sig[f] = None
    /\ sig' = [sig EXCEPT ![f] = "timeout"]
    /\ UNCHANGED <<cfg, isProcessing, retryAttempts, abortControllers, ctrlAborted,
                   responseCache, now, pc, frames, resp, cacheKey, calls, netCalls,
                   submits, sub, lastResponse, ticks>>
    /\ UnchangedStream /\ UnchangedJs

\* time passes; Date.now() is read only to stamp and to test a timed cache entry
Tick ==
    /\ ticks < MaxTicks
    /\ \E f \in Forms : cfg[f].cacheSecs > 0
    /\ ticks' = ticks + 1
    /\ now' = now + TickMs
    /\ UNCHANGED <<cfg, isProcessing, retryAttempts, abortControllers, ctrlAborted,
                   responseCache, pc, frames, sig, resp, cacheKey, calls, netCalls,
                   submits, sub, lastResponse>>
    /\ UnchangedStream /\ UnchangedJs

(* The steps of the submit listeners and of what they await, with the        *)
(* beforeSend hooks returning values of the set returns.                     *)
Steps(returns) ==
    \/ \E f \in Forms : SubmitDropped(f)
    \/ \E f \in Forms : SubmitInvalid(f)
    \/ \E f \in Forms, v \in returns : SubmitVetoed(f, v)
    \/ \E f \in Forms, v \in returns : SubmitNative(f, v)
    \/ \E f \in Forms, p \in Payloads, v \in returns : SubmitCacheHit(f, p, v)
    \/ \E f \in Forms, p \in Payloads, v \in returns : SubmitFetch(f, p, v)
    \/ \E f \in Forms : FetchRejects(f)
    \/ \E f \in Forms, r \in Responses : FetchNotOk(f, r)
    \/ \E f \in Forms, r \in Responses : FetchOk(f, r)
    \/ \E f \in Forms : BodyResolves(f)
    \/ \E f \in Forms : BodyRejects(f)
    \/ \E f \in Forms : AbortSettles(f)
    \/ \E f \in Forms, body \in SseBodies : FetchSse(f, body)
    \/ \E f \in Forms : \E n \in TwoChunks(f) : SseRead(f, n)
    \/ \E f \in Forms : SseDone(f)
    \/ \E f \in Forms : SseReadRejects(f)
    \/ \E f \in Forms, p \in Payloads, v \in returns : SubmitProxy(f, p, v)
    \/ \E f \in Forms, len \in ProxyBodyLens : ProxyFetchResolves(f, len)
    \/ \E f \in Forms : \E n \in 1..Len(bodyRest[f]) : ProxyRead(f, n)
    \/ \E f \in Forms : ProxyDone(f)
    \/ \E f \in Forms : ProxyRejects(f)
    \/ \E f \in Forms : TimeoutFires(f)
    \/ Tick

Next ==
    \/ Steps(MainReturns)
    \/ \E f \in Forms : Cancel(f)

Spec == Init /\ [][Next]_vars

\* ---------------------------------------------------------------- the hooks' return values
\* forms without retries, whose beforeSend hooks return any value
InitHooks == Init /\ \A f \in Forms : cfg[f].retryCount = 0

NextHooks ==
    \/ Steps(BeforeSendReturns)
    \/ \E f \in Forms : Cancel(f)

SpecHooks == InitHooks /\ [][NextHooks]_vars

\* ---------------------------------------------------------------- cancel calls counted
\* forms without retries, on which the calls of Gnex.cancel are counted
InitCancel == Init /\ \A f \in Forms : cfg[f].retryCount = 0

NextCancel ==
    \/ Steps(MainReturns)
    \/ \E f \in Forms : CancelCounted(f)

SpecCancel == InitCancel /\ [][NextCancel]_vars

\* ---------------------------------------------------------------- the SSE parser alone
(* Event streams built from lines: up to MaxLines lines, each ended by a     *)
(* newline, the last newline present or left out; and the two-event stream   *)
(* of the specification.  An empty line makes the blank-line delimiter.      *)
StreamLines ==
    { <<"e", "v", "e", "n", "t", ":", "p", "r", "o", "g", "r", "e", "s", "s">>,
      <<"e", "v", "e", "n", "t", ":", "d", "o", "n", "e">>,
      <<" ", "e", "v", "e", "n", "t", ":", "d", "o", "n", "e">>,
      <<"d", "a", "t", "a", ":", "5">>,
      <<"d", "a", "t", "a", ":", "x">>,
      <<"d", "a", "t", "a", ":", "C3", "A9">>,
      <<>> }

RECURSIVE Unlines(_)
Unlines(ls) == IF ls = <<>> THEN <<>> ELSE ls[1] \o Newline \o Unlines(Tail(ls))

TwoEventStream ==
    <<"e", "v", "e", "n", "t", ":", " ", "p", "r", "o", "g", "r",
      "e", "s", "s", "\n", "d", "a", "t", "a", ":", " ", "5", "0",
      "\n", "\n", " ", "e", "v", "e", "n", "t", ":", " ", "d", "o",
      "n", "e", "\n", "d", "a", "t", "a", ":", " ", "{", "\"", "s",
      "t", "a", "t", "u", "s", "\"", ":", "\"", "s", "u", "c", "c",
      "e", "s", "s", "\"", "}", "\n", "\n">>

(* A done event whose data is not JSON, then a done event, then a progress   *)
(* event with no closing blank line.                                         *)
SseBadThenDone ==
    <<"e", "v", "e", "n", "t", ":", "d", "o", "n", "e", "\n", "d", "a", "t", "a", ":", "x",
      "\n", "\n", "e", "v", "e", "n", "t", ":", "d", "o", "n", "e", "\n", "d", "a", "t",
      "a", ":", "{", "}", "\n", "\n", "e", "v", "e", "n", "t", ":", "p", "r", "o", "g",
      "r", "e", "s", "s", "\n", "d", "a", "t", "a", ":", "1">>

SseStreams ==
    LET whole == UNION { { Unlines(ls) : ls \in [1..n -> StreamLines] } : n \in 1..MaxLines }
    IN  whole \cup { SubSeq(b, 1, Len(b) - 1) : b \in whole }
        \cup {TwoEventStream, SseBadThenDone}

SseForm == CHOOSE f \in Forms : TRUE

(* The state in which _processSseStream starts: a first submission of an     *)
(* sse form, whose fetch resolved with a text/event-stream response.         *)
InitSse ==
    /\ cfg \in [Forms -> { c \in AsyncConfigs :
                             c.sse /\ c.timeout = 0 /\ c.retryCount = 0 /\ ~c.cache }]
    /\ isProcessing = [f \in Forms |-> f = SseForm]
    /\ retryAttempts = [f \in Forms |-> 0]
    /\ abortControllers = {SseForm}
    /\ ctrlAborted = [f \in Forms |-> FALSE]
    /\ responseCache = [k \in CacheKeys |-> NoEntry]
    /\ now = 0
    /\ pc = [f \in Forms |-> IF f = SseForm THEN "sse" ELSE "idle"]
    /\ frames = [f \in Forms |-> IF f = SseForm THEN 1 ELSE 0]
    /\ sig = [f \in Forms |-> None]
    /\ resp = [f \in Forms |-> NoResponse]
    /\ cacheKey = [f \in Forms |-> CacheKeyOf(f, CHOOSE p \in Payloads : ~p.file)]
    /\ \E body \in SseStreams :
          /\ bodyRest = [f \in Forms |-> IF f = SseForm THEN body ELSE <<>>]
          /\ sub = [f \in Forms |->
                      IF f = SseForm
                      THEN [NoSubmission EXCEPT !.outcome = "running", !.stream = body]
                      ELSE NoSubmission]
    /\ eventBuffer = [f \in Forms |-> <<>>]
    /\ uploadedBytes = [f \in Forms |-> 0]
    /\ totalSize = [f \in Forms |-> 0]
    /\ calls = [f \in Forms |-> IF f = SseForm THEN HookCalls(3) ELSE <<>>]
    /\ netCalls = [f \in Forms |-> IF f = SseForm THEN 1 ELSE 0]
    /\ submits = [f \in Forms |-> IF f = SseForm THEN 1 ELSE 0]
    /\ lastResponse = [k \in CacheKeys |-> NoEntry]
    /\ ticks = 0
    /\ InitJs /\ strictMode = FALSE

\* the stream arrives in chunks of any sizes
NextSse ==
    \/ \E n \in 1..Len(bodyRest[SseForm]) : SseRead(SseForm, n)
    \/ SseDone(SseForm)

SpecSse == InitSse /\ [][NextSse]_vars

\* ---------------------------------------------------------------- the progress proxy alone
(* The state in which proxyFetch starts: a first submission of a form with   *)
(* onProgress and files of totalSize > 0 bytes in all; the server answers    *)
(* with a body of any length, which arrives in chunks of any sizes.          *)
ProxyForm == CHOOSE f \in Forms : TRUE

InitProxy ==
    /\ cfg \in [Forms -> { c \in AsyncConfigs :
                             /\ ~c.sse /\ c.onProgress
                             /\ c.timeout = 0 /\ c.retryCount = 0 /\ ~c.cache }]
    /\ isProcessing = [f \in Forms |-> f = ProxyForm]
    /\ retryAttempts = [f \in Forms |-> 0]
    /\ abortControllers = {ProxyForm}
    /\ ctrlAborted = [f \in Forms |-> FALSE]
    /\ responseCache = [k \in CacheKeys |-> NoEntry]
    /\ now = 0
    /\ pc = [f \in Forms |-> IF f = ProxyForm THEN "proxyFetch" ELSE "idle"]
    /\ frames = [f \in Forms |-> 0]
    /\ sig = [f \in Forms |-> None]
    /\ resp = [f \in Forms |-> NoResponse]
    /\ cacheKey = [f \in Forms |-> CacheKeyOf(f, CHOOSE p \in Payloads : p.size > 0)]
    /\ bodyRest = [f \in Forms |-> <<>>]
    /\ eventBuffer = [f \in Forms |-> <<>>]
    /\ uploadedBytes = [f \in Forms |-> 0]
    /\ \E total \in 1..MaxTotalSize :
          totalSize = [f \in Forms |-> IF f = ProxyForm THEN total ELSE 0]
    /\ calls = [f \in Forms |-> IF f = ProxyForm THEN HookCalls(3) ELSE <<>>]
    /\ netCalls = [f \in Forms |-> IF f = ProxyForm THEN 1 ELSE 0]
    /\ submits = [f \in Forms |-> IF f = ProxyForm THEN 1 ELSE 0]
    /\ sub = [f \in Forms |->
                IF f = ProxyForm
                THEN [NoSubmission EXCEPT !.outcome = "running", !.proxy = TRUE]
                ELSE NoSubmission]
    /\ lastResponse = [k \in CacheKeys |-> NoEntry]
    /\ ticks = 0
    /\ InitJs /\ strictMode = FALSE

NextProxy ==
    \/ \E len \in 0..MaxProxyLen : ProxyFetchResolves(ProxyForm, len)
    \/ \E n \in 1..Len(bodyRest[ProxyForm]) : ProxyRead(ProxyForm, n)
    \/ ProxyDone(ProxyForm)

SpecProxy == InitProxy /\ [][NextProxy]_vars

\* ---------------------------------------------------------------- Gnex.load
(* A standalone request.  Every call of load makes a context of its own; c   *)
(* names the context of the latest call, and a call is made once the request *)
(* of the one before has settled.  The configuration is                      *)
(* {...defaults, ...options, async: true}: load reads sse and the hooks of   *)
(* it, and neither timeout, retryCount nor cache.                            *)
LoadConfigs ==
    { c \in AsyncConfigs : c.timeout = 0 /\ c.retryCount = 0 /\ ~c.cache }

\* what load's hooks have been called with before the first await
LoadCalls(n) ==
    SubSeq(<<Call("beforeSend", None, <<>>), Call("setLoadingState", None, <<>>)>>, 1, n)

\* the error a pending fetch or body read rejects with when its signal is aborted
AbortError == <<"AbortError">>

\* the if/else chain of load that picks responseType
LoadTypeOf(r) ==
    IF r.ctype = JSON THEN "json"
    ELSE IF r.partial THEN "x-html"
    ELSE "text"

\* catch (error) { onError('request', null, error) } finally { ... }
LoadCatch(c, hist, message) ==
    /\ Finally(c, Append(calls[c], Call("onError", "request", message)))
    /\ sub' = [sub EXCEPT ![c] = [hist EXCEPT !.outcome = "request", !.fails = @ + 1]]
    /\ UNCHANGED <<retryAttempts, netCalls, responseCache, cacheKey, submits, lastResponse>>
    /\ UnchangedEnv /\ UnchangedStream

\* load(url, options) whose beforeSend returns false
LoadVetoed(c, v) ==
    /\ submits[c] < MaxSubmits
    /\ pc[c] = "idle"
    /\ Vetoes(v)
    /\ submits' = [submits EXCEPT ![c] = @ + 1]
    /\ abortControllers' = abortControllers \cup {c}
    /\ ctrlAborted' = [ctrlAborted EXCEPT ![c] = FALSE]
    /\ calls' = [calls EXCEPT ![c] = LoadCalls(1) \o Resets(1)]
    /\ netCalls' = [netCalls EXCEPT ![c] = 0]
    /\ sub' = [sub EXCEPT ![c] = Sent(c, "vetoed", v)]
    /\ UNCHANGED <<isProcessing, retryAttempts, responseCache, pc, frames, sig, resp,
                   cacheKey, lastResponse>>
    /\ UnchangedEnv /\ UnchangedStream

\* load(url, options) up to await fetch(url, requestOptions)
LoadStart(c, v) ==
    /\ submits[c] < MaxSubmits
    /\ pc[c] = "idle"
    /\ ~Vetoes(v)
    /\ submits' = [submits EXCEPT ![c] = @ + 1]
    /\ abortControllers' = abortControllers \cup {c}
    /\ ctrlAborted' = [ctrlAborted EXCEPT ![c] = FALSE]
    /\ calls' = [calls EXCEPT ![c] = LoadCalls(2)]
    /\ netCalls' = [netCalls EXCEPT ![c] = 1]
    /\ pc' = [pc EXCEPT ![c] = "fetch"]
    /\ frames' = [frames EXCEPT ![c] = 1]
    /\ sig' = [sig EXCEPT ![c] = None]
    /\ sub' = [sub EXCEPT ![c] = Sent(c, "running", v)]
    /\ UNCHANGED <<isProcessing, retryAttempts, responseCache, resp, cacheKey,
                   lastResponse>>
    /\ UnchangedEnv /\ UnchangedStream

\* fetch rejects with a network error
LoadFetchRejects(c) ==
    /\ pc[c] = "fetch" /\ sig[c] = None
    /\ LoadCatch(c, sub[c], NetworkError)

\* fetch resolves with a response that is not ok
LoadNotOk(c, r) ==
    /\ pc[c] = "fetch" /\ sig[c] = None
    /\ ~ResponseOk(r)
    /\ LoadCatch(c, sub[c], HttpError(r))

\* fetch resolves ok: await response.json() or await response.text()
LoadFetchOk(c, r) ==
    /\ pc[c] = "fetch" /\ sig[c] = None
    /\ ResponseOk(r)
    /\ ~IsSseResponse(c, r)
    /\ pc' = [pc EXCEPT ![c] = "body"]
    /\ resp' = [resp EXCEPT ![c] = r]
    /\ UNCHANGED <<isProcessing, retryAttempts, abortControllers, ctrlAborted,
                   responseCache, frames, sig, cacheKey, calls, netCalls, submits, sub,
                   lastResponse>>
    /\ UnchangedEnv /\ UnchangedStream

(* The body read resolves, or json() throws a SyntaxError: onSuccess is      *)
(* called with whatever was decoded.                                         *)
LoadBodyResolves(c) ==
    /\ pc[c] = "body" /\ sig[c] = None
    /\ LET r == resp[c]
           kind == LoadTypeOf(r)
       IN  IF kind = "json" /\ ~JsonValid(r.body)
           THEN LoadCatch(c, [sub[c] EXCEPT !.decodeFailed = TRUE], SyntaxError)
           ELSE /\ Finally(c, Append(calls[c],
                       Call("onSuccess", kind,
                            IF kind = "json" THEN JsonValue(r.body) ELSE r.body)))
                /\ sub' = [sub EXCEPT ![c].outcome = "delivered",
                                      ![c].response = HeadersOf(r)]
                /\ UNCHANGED <<retryAttempts, netCalls, responseCache, cacheKey, submits,
                               lastResponse>>
                /\ UnchangedEnv /\ UnchangedStream

\* the body read fails: a network error while the body arrives
LoadBodyRejects(c) ==
    /\ pc[c] = "body" /\ sig[c] = None
    /\ LoadCatch(c, [sub[c] EXCEPT !.decodeFailed = TRUE], NetworkError)

\* the pending fetch or body read rejects with the AbortError of the signal
LoadAbortSettles(c) ==
    /\ pc[c] \in {"fetch", "body"} /\ sig[c] # None
    /\ LoadCatch(c, sub[c], AbortError)

InitLoad == Init /\ \A c \in Forms : cfg[c] \in LoadConfigs

NextLoad ==
    \/ \E c \in Forms, v \in MainReturns : LoadVetoed(c, v)
    \/ \E c \in Forms, v \in MainReturns : LoadStart(c, v)
    \/ \E c \in Forms : LoadFetchRejects(c)
    \/ \E c \in Forms, r \in Responses : LoadNotOk(c, r)
    \/ \E c \in Forms, r \in Responses : LoadFetchOk(c, r)
    \/ \E c \in Forms : LoadBodyResolves(c)
    \/ \E c \in Forms : LoadBodyRejects(c)
    \/ \E c \in Forms : LoadAbortSettles(c)
    \/ \E c \in Forms, body \in SseBodies : FetchSse(c, body)
    \/ \E c \in Forms : \E n \in TwoChunks(c) : SseRead(c, n)
    \/ \E c \in Forms : SseDone(c)
    \/ \E c \in Forms : SseReadRejects(c)
    \/ \E c \in Forms : Cancel(c)

SpecLoad == InitLoad /\ [][NextLoad]_vars

\* ---------------------------------------------------------------- gnex.js: two forms
(* The submit listeners setupForm of gnex.js gives to two forms that share   *)
(* one configuration: async, without sse, cache, retries, timeout and        *)
(* onProgress, with every hook registered.  submitForm assigns `type` and    *)
(* `data`, which no scope declares: in sloppy code they are properties of    *)
(* the global object, in strict code the assignment throws a ReferenceError. *)
ReferenceError == <<"type is not defined">>

\* the form's own state that a step of another form leaves alone
UnchangedForms ==
    UNCHANGED <<cfg, isProcessing, retryAttempts, abortControllers, ctrlAborted,
                responseCache, now, pc, frames, sig, resp, cacheKey, calls, netCalls,
                submits, sub, lastResponse, ticks, strictMode>>
    /\ UnchangedStream

\* what response.json() or response.text() resolves with
BodyData(r) == IF ResponseTypeOf(r) = "json" THEN JsonValue(r.body) ELSE r.body

\* the truthiness of what response.json() or response.text() resolves with
BodyTruthy(r) ==
    IF ResponseTypeOf(r) = "json" THEN JsonTruthy(r.body) ELSE TextTruthy(r.body)

\* finally { isSubmitting = false; _controllers.delete(form); resetLoadingState(form) }
JsFinally(f, log) ==
    /\ isSubmitting' = [isSubmitting EXCEPT ![f] = FALSE]
    /\ controllers' = controllers \ {f}
    /\ jsCalls' = [jsCalls EXCEPT ![f] = log \o Resets(1)]
    /\ jsPc' = [jsPc EXCEPT ![f] = "idle"]

\* catch (error) with retryCount 0: onError('request', form, error), then finally
JsCatch(f, message) ==
    JsFinally(f, Append(jsCalls[f], Call("onError", "request", message)))

\* if (!config.sse && type && data) onSuccess(type, form, data), then finally
JsDeliver(f, t, d, truthy) ==
    JsFinally(f, IF t # None /\ truthy
                 THEN Append(jsCalls[f], Call("onSuccess", t, d))
                 ELSE jsCalls[f])

\* a submit event whose validate hook returns false
JsSubmitInvalid(f) ==
    /\ ~isSubmitting[f]
    /\ jsCalls' = [jsCalls EXCEPT ![f] = HookCalls(1)]
    /\ response' = [response EXCEPT ![f] = NoResponse]
    /\ UNCHANGED <<type, data, isSubmitting, controllers, jsPc>>
    /\ UnchangedForms

\* a submit event whose beforeSend hook returns false
JsSubmitVetoed(f, v) ==
    /\ ~isSubmitting[f]
    /\ Vetoes(v)
    /\ controllers' = controllers \cup {f}
    /\ jsCalls' = [jsCalls EXCEPT ![f] = HookCalls(2) \o Resets(1)]
    /\ response' = [response EXCEPT ![f] = NoResponse]
    /\ UNCHANGED <<type, data, isSubmitting, jsPc>>
    /\ UnchangedForms

\* a submit event up to await fetch(form.action, ...) in submitForm
JsSubmit(f, v) ==
    /\ ~isSubmitting[f]
    /\ ~Vetoes(v)
    /\ isSubmitting' = [isSubmitting EXCEPT ![f] = TRUE]
    /\ controllers' = controllers \cup {f}
    /\ jsCalls' = [jsCalls EXCEPT ![f] = HookCalls(3)]
    /\ jsPc' = [jsPc EXCEPT ![f] = "fetch"]
    /\ response' = [response EXCEPT ![f] = NoResponse]
    /\ UNCHANGED <<type, data>>
    /\ UnchangedForms

\* fetch rejects with a network error
JsFetchRejects(f) ==
    /\ jsPc[f] = "fetch"
    /\ JsCatch(f, NetworkError)
    /\ UNCHANGED <<type, data, response>>
    /\ UnchangedForms

\* fetch resolves with a response that is not ok
JsFetchNotOk(f, r) ==
    /\ jsPc[f] = "fetch"
    /\ ~ResponseOk(r)
    /\ JsCatch(f, HttpError(r))
    /\ UNCHANGED <<type, data, response>>
    /\ UnchangedForms

(* fetch resolves ok: the branch of the response assigns `type`, and awaits  *)
(* response.json() or response.text(), or takes the Location header.         *)
JsFetchOk(f, r) ==
    /\ jsPc[f] = "fetch"
    /\ ResponseOk(r)
    /\ response' = [response EXCEPT ![f] = r]
    /\ IF strictMode
       THEN /\ JsCatch(f, ReferenceError)
            /\ UNCHANGED <<type, data>>
       ELSE /\ type' = ResponseTypeOf(r)
            /\ IF ResponseTypeOf(r) = "redirect"
               THEN LET location == IF r.location = None THEN <<"unknown">>
                                    ELSE <<r.location>>
                    IN  /\ data' = location
                        /\ JsDeliver(f, "redirect", location, TRUE)
               ELSE /\ jsPc' = [jsPc EXCEPT ![f] = "body"]
                    /\ UNCHANGED <<data, isSubmitting, controllers, jsCalls>>
    /\ UnchangedForms

(* response.json() or response.text() resolves and is assigned to `data`,    *)
(* or json() throws a SyntaxError; `type` is read as it is now.              *)
JsBodyResolves(f) ==
    /\ jsPc[f] = "body"
    /\ LET r == response[f]
       IN  IF ResponseTypeOf(r) = "json" /\ ~JsonValid(r.body)
           THEN /\ JsCatch(f, SyntaxError)
                /\ UNCHANGED data
           ELSE /\ data' = BodyData(r)
                /\ JsDeliver(f, type, BodyData(r), BodyTruthy(r))
    /\ UNCHANGED <<type, response>>
    /\ UnchangedForms

\* the body read fails
JsBodyRejects(f) ==
    /\ jsPc[f] = "body"
    /\ JsCatch(f, NetworkError)
    /\ UNCHANGED <<type, data, response>>
    /\ UnchangedForms

InitPair ==
    /\ InitForms /\ cfg = [f \in Forms |-> defaults]
    /\ InitJs
    /\ strictMode \in BOOLEAN

NextPair ==
    \/ \E f \in JsForms : JsSubmitInvalid(f)
    \/ \E f \in JsForms, v \in MainReturns : JsSubmitVetoed(f, v)
    \/ \E f \in JsForms, v \in MainReturns : JsSubmit(f, v)
    \/ \E f \in JsForms : JsFetchRejects(f)
    \/ \E f \in JsForms, r \in Responses : JsFetchNotOk(f, r)
    \/ \E f \in JsForms, r \in Responses : JsFetchOk(f, r)
    \/ \E f \in JsForms : JsBodyResolves(f)
    \/ \E f \in JsForms : JsBodyRejects(f)

SpecPair == InitPair /\ [][NextPair]_vars

\* ================================================================ properties

\* the number of calls of callback cb in a log
CountOf(log, cb) == Cardinality({ i \in 1..Len(log) : log[i].cb = cb })

\* the number of terminal callbacks (onSuccess, onError) in a log
Terminals(log) == CountOf(log, "onSuccess") + CountOf(log, "onError")

\* the kinds of the onError calls in a log
ErrorKinds(log) == { log[i].kind : i \in { n \in 1..Len(log) : log[n].cb = "onError" } }

\* a submit event was delivered to form f in this step
Submitted(f) == submits'[f] = submits[f] + 1

(* C1: a submit event that arrives while the form's isProcessing flag is set *)
(* is dropped at the entry guard: the step issues no network call, invokes   *)
(* no callback, and leaves the flag, the retry counter, the registry, the    *)
(* cache and the position of the submission in progress as they were.        *)
C1_GuardDropsReentrantSubmit ==
    [][\A f \in Forms :
          (Submitted(f) /\ isProcessing[f]) =>
              /\ netCalls'[f] = netCalls[f]
              /\ calls'[f] = calls[f]
              /\ isProcessing'[f]
              /\ pc'[f] = pc[f]
              /\ UNCHANGED <<retryAttempts, abortControllers, responseCache, frames,
                             sig, resp, cacheKey>>]_vars

\* a submit event was dropped while the fetch of a submission was pending
C1_Witness ==
    \E f \in Forms :
        /\ sub[f].dropped > 0
        /\ pc[f] = "fetch"
        /\ netCalls[f] = 1
        /\ Terminals(calls[f]) = 0

(* C6: a submission whose validate hook returns false issues no network      *)
(* call, invokes neither onSuccess nor onError nor a loading hook, registers *)
(* no abort handle, and leaves isProcessing false with no handler step       *)
(* pending, so that the entry guard is open for the next submit event.       *)
C6_ValidationFailureReleases ==
    [][\A f \in Forms :
          (Submitted(f) /\ ~isProcessing[f] /\ sub'[f].outcome = "invalid") =>
              /\ netCalls'[f] = 0
              /\ calls'[f] = HookCalls(1)
              /\ abortControllers' = abortControllers
              /\ ~isProcessing'[f]
              /\ pc'[f] = "idle"
              /\ ~SubmitGuard(f)']_vars

\* the submission after one that failed validation was accepted and fetches
C6_Witness ==
    \E f \in Forms :
        /\ sub[f].prev = "invalid"
        /\ sub[f].outcome = "running"
        /\ pc[f] = "fetch"
        /\ netCalls[f] = 1

(* C3: the retry counter is per submission: while an attempt of a           *)
(* submission is in flight the counter equals the number of retries that    *)
(* this submission has made, one less than its nested executeSubmission     *)
(* activations, so that each submit event starts with the counter at zero.  *)
C3_RetryCounterPerSubmission ==
    \A f \in Forms :
        pc[f] \in {"fetch", "body", "sse"} => retryAttempts[f] = frames[f] - 1

(* C2: with retryCount = N, a submission of a non-sse form that goes        *)
(* straight to executeSubmission gives up with onError('request') only      *)
(* after more than N failed attempts, and when its transport fails exactly  *)
(* N times and then answers with data that decodes to a truthy value it has *)
(* issued N + 1 network calls and invoked onSuccess exactly once.           *)
C2_RetriesThenSuccess ==
    \A f \in Forms :
        (pc[f] = "idle" /\ cfg[f].async /\ ~cfg[f].sse /\ ~sub[f].proxy) =>
            /\ sub[f].outcome = "request" => sub[f].fails > cfg[f].retryCount
            /\ (/\ sub[f].outcome = "delivered"
                /\ sub[f].decoded = "truthy"
                /\ sub[f].fails = cfg[f].retryCount) =>
                   /\ netCalls[f] = cfg[f].retryCount + 1
                   /\ CountOf(calls[f], "onSuccess") = 1
                   /\ CountOf(calls[f], "onError") = 0

(* C4: with caching on, a submit event accepted while the last non-streamed *)
(* response decoded for the same fingerprint has not expired issues no      *)
(* network call and invokes onSuccess once, with that response's kind and   *)
(* data.                                                                    *)
C4_SecondSubmissionServedFromCache ==
    [][\A f \in Forms :
          (/\ Submitted(f) /\ ~isProcessing[f]
           /\ cfg[f].async /\ cfg[f].cache
           /\ sub'[f].outcome \in {"cache", "running"}
           /\ lastResponse[cacheKey'[f]] # NoEntry
           /\ now < lastResponse[cacheKey'[f]].expires) =>
              /\ netCalls'[f] = 0
              /\ CountOf(calls'[f], "onSuccess") = 1
              /\ \E i \in 1..Len(calls'[f]) :
                     calls'[f][i] = Call("onSuccess",
                                         lastResponse[cacheKey'[f]].responseType,
                                         lastResponse[cacheKey'[f]].data)]_vars

(* C8: an async submission of a non-sse form that issued a network call and *)
(* settled has invoked exactly one terminal callback, onSuccess or onError, *)
(* whatever status, headers and body the response had.                      *)
C8_ExactlyOneTerminalCallback ==
    \A f \in Forms :
        (/\ pc[f] = "idle" /\ cfg[f].async /\ ~cfg[f].sse
         /\ netCalls[f] > 0
         /\ sub[f].outcome \in {"delivered", "request", "timeout", "aborted"}) =>
            Terminals(calls[f]) = 1

(* C5: after Gnex.cancel was called while a fetch of the submission was     *)
(* pending, the form has no registry entry, no fetch of the submission is   *)
(* pending without the abort having reached it (it is not retried), the     *)
(* handler is not left stalled, and once the submission has settled it has  *)
(* invoked onError exactly once, with kind 'aborted', and never onSuccess.  *)
C5_CancelSettlesAborted ==
    \A f \in Forms :
        sub[f].cancelled =>
            /\ f \notin abortControllers
            /\ pc[f] # "hung"
            /\ pc[f] = "fetch" => sig[f] = "abort"
            /\ pc[f] = "idle" =>
                  /\ CountOf(calls[f], "onError") = 1
                  /\ ErrorKinds(calls[f]) = {"aborted"}
                  /\ CountOf(calls[f], "onSuccess") = 0

(* C7: the isProcessing flag of an async form is set only while a step of   *)
(* the submission's handler is still pending (a fetch, a body read, a       *)
(* stream read): once every pending call has resolved or rejected the flag  *)
(* is false again, the handler never ends or stalls with the flag set.      *)
C7_ProcessingFlagReleased ==
    \A f \in Forms :
        (cfg[f].async /\ isProcessing[f]) =>
            pc[f] \in {"fetch", "body", "sse", "proxyFetch", "proxyRead"}

(* C9: once the combined signal of an attempt has fired, the submission     *)
(* issues no further network call, and the step in which the attempt        *)
(* settles invokes onError once more, with kind 'timeout' when the timeout  *)
(* fired first and 'aborted' when the abort did, and ends the submission.   *)
C9_FiredSignalIsTerminal ==
    [][\A f \in Forms :
          sig[f] # None =>
              /\ netCalls'[f] = netCalls[f]
              /\ pc'[f] # pc[f] =>
                    /\ pc'[f] = "idle"
                    /\ ~isProcessing'[f]
                    /\ \E n \in 0..(MaxRetry + 1) :
                           calls'[f] =
                               Append(calls[f], Call("onError", AbortKind(sig[f]), <<>>))
                               \o Resets(n)]_vars

\* the callbacks _processSseStream invokes for a stream read as one chunk
WholeStreamCalls(stream, progress) ==
    ChunkCalls(<<>>, stream, progress)
    \o FinalEvent(ChunkBuffer(<<>>, stream), progress)

(* C10: when the stream has ended, the callbacks the SSE parser invoked,    *)
(* in order and with their arguments, are those it invokes for the same     *)
(* byte stream read as a single chunk, however the stream was split.        *)
C10_ChunkingIndependent ==
    \A f \in Forms :
        (pc[f] = "idle" /\ sub[f].outcome = "sse") =>
            calls[f] = HookCalls(3)
                       \o WholeStreamCalls(sub[f].stream, cfg[f].onProgress)
                       \o Resets(1)

\* the percentages the proxy passed to onProgress, in order
Percentages(log) ==
    LET idx == { i \in 1..Len(log) : log[i].cb = "onProgress" }
        nth[k \in 0..Len(log)] ==
            IF k = 0 THEN <<>>
            ELSE IF k \in idx THEN Append(nth[k - 1], log[k].pct) ELSE nth[k - 1]
    IN  nth[Len(log)]

(* C11: within one attempt of the upload-progress proxy the percentages     *)
(* passed to onProgress are integers in 0..100 and never decrease, for      *)
(* every totalSize > 0, body length and sequence of chunk sizes.            *)
C11_PercentagesMonotone ==
    \A f \in Forms :
        sub[f].proxy =>
            LET ps == Percentages(calls[f])
            IN  /\ \A i \in 1..Len(ps) : ps[i] \in 0..100
                /\ \A i, j \in 1..Len(ps) : i < j => ps[i] <= ps[j]

\* three chunks were reported, rising and then held at the cap of 100
C11_Witness ==
    \E f \in Forms :
        LET ps == Percentages(calls[f])
        IN  /\ sub[f].proxy
            /\ Len(ps) >= 3
            /\ ps[1] < ps[2]
            /\ ps[Len(ps)] = 100
            /\ uploadedBytes[f] > totalSize[f]

(* C12: with totalSize > 0 the percentages of one attempt end at 100, and   *)
(* 100 is reported only by the read that exhausts the stream: while bytes   *)
(* of the body are still to come no report is 100, and once the proxy has   *)
(* read the whole body the last report is 100.                              *)
C12_HundredExactlyAtEnd ==
    \A f \in Forms :
        (sub[f].proxy /\ totalSize[f] > 0 /\ Percentages(calls[f]) # <<>>) =>
            LET ps == Percentages(calls[f])
            IN  /\ (pc[f] = "proxyRead" /\ bodyRest[f] # <<>>) =>
                      \A i \in 1..Len(ps) : ps[i] < 100
                /\ (pc[f] = "fetch") =>
                      /\ ps[Len(ps)] = 100
                      /\ \A i \in 1..(Len(ps) - 1) : ps[i] < 100

\* the kind of the first rule of the decision order that matches a response
FirstMatch(r) ==
    CASE r.ctype = JSON -> "json"
      [] r.ctype # JSON /\ r.partial -> "x-html"
      [] r.ctype # JSON /\ ~r.partial /\ r.status \in 300..399 -> "redirect"
      [] OTHER -> "full-html"

C14_RedirectIsSuccess ==
    \A f \in Forms :
        \A i \in 1..Len(calls[f]) :
            calls[f][i].cb = "onError" =>
                \A r \in Responses :
                    (IsRedirect(r) /\ r.ctype # JSON /\ ~r.partial) =>
                        calls[f][i].data # HttpError(r)

(* C20: an async submission that goes straight to executeSubmission and    *)
(* ends in onError('request') with every one of its fetches having failed   *)
(* with a network error or a status that is not ok has issued               *)
(* retryCount + 1 network calls, invoked onError once, with kind 'request', *)
(* as its last callback before resetLoadingState, and never onSuccess.      *)
C20_AllAttemptsFail ==
    \A f \in Forms :
        (/\ pc[f] = "idle" /\ cfg[f].async /\ ~sub[f].proxy
         /\ sub[f].outcome = "request" /\ ~sub[f].decodeFailed) =>
            /\ netCalls[f] = cfg[f].retryCount + 1
            /\ CountOf(calls[f], "onError") = 1
            /\ ErrorKinds(calls[f]) = {"request"}
            /\ CountOf(calls[f], "onSuccess") = 0

(* C17: with async false, a submission that passes validate and beforeSend *)
(* calls the form's native submit exactly once, issues no network call,     *)
(* leaves the cache and the retry counter as they were, starts no handler   *)
(* step, and invokes neither onSuccess nor onError.                         *)
C17_NativeSubmitOnly ==
    [][\A f \in Forms :
          (/\ Submitted(f) /\ ~isProcessing[f] /\ ~cfg[f].async
           /\ sub'[f].outcome \notin {"invalid", "vetoed"}) =>
              /\ CountOf(calls'[f], "submit") = 1
              /\ netCalls'[f] = 0
              /\ Terminals(calls'[f]) = 0
              /\ responseCache' = responseCache
              /\ retryAttempts' = retryAttempts
              /\ pc'[f] = "idle"]_vars

\* a form with async false and caching and retries on has called submit()
C17_Witness ==
    \E f \in Forms :
        /\ ~cfg[f].async /\ cfg[f].cache /\ cfg[f].retryCount > 0
        /\ sub[f].outcome = "native"
        /\ CountOf(calls[f], "submit") = 1
        /\ netCalls[f] = 0

(* C18: after a synchronous submission has called the native submit the    *)
(* context is idle again: isProcessing is false, so that the next submit    *)
(* event passes the entry guard.                                            *)
C18_NativeSubmitReleases ==
    \A f \in Forms :
        sub[f].outcome = "native" => ~isProcessing[f]

(* C16: a call of Gnex.cancel on a context with no registered controller     *)
(* changes nothing, and after any call of Gnex.cancel the context has no     *)
(* registered controller and no callback was invoked by the call, so that a  *)
(* second call right after the first changes nothing more.                   *)
C16_CancelIdempotent ==
    [][\A f \in Forms :
        sub'[f].cancels = sub[f].cancels + 1 =>
            /\ f \notin abortControllers'
            /\ calls' = calls
            /\ f \notin abortControllers =>
                  /\ sub' = [sub EXCEPT ![f].cancels = @ + 1]
                  /\ UNCHANGED <<cfg, isProcessing, retryAttempts, abortControllers,
                                 ctrlAborted, responseCache, now, pc, frames, sig, resp,
                                 cacheKey, bodyRest, eventBuffer, uploadedBytes, totalSize,
                                 calls, netCalls, submits, lastResponse, ticks>>]_vars

\* two calls of Gnex.cancel during one pending fetch: the first aborted it
C16_Witness ==
    \E f \in Forms :
        /\ sub[f].cancels = 2
        /\ sub[f].cancelled
        /\ pc[f] = "fetch"
        /\ sig[f] = "abort"
        /\ f \notin abortControllers

(* C19: a submission whose beforeSend hook returns exactly false makes no    *)
(* network call, invokes neither onSuccess nor onError nor setLoadingState,  *)
(* invokes resetLoadingState and leaves the form idle and not processing; a  *)
(* submission whose hook returns anything else is not vetoed.                *)
C19_OnlyFalseVetoes ==
    [][\A f \in Forms :
        (Submitted(f) /\ ~SubmitGuard(f) /\ sub'[f].outcome # "invalid") =>
            IF sub'[f].beforeSend = "false"
            THEN /\ sub'[f].outcome = "vetoed"
                 /\ netCalls'[f] = 0
                 /\ Terminals(calls'[f]) = 0
                 /\ CountOf(calls'[f], "setLoadingState") = 0
                 /\ CountOf(calls'[f], "resetLoadingState") = 1
                 /\ ~isProcessing'[f]
                 /\ pc'[f] = "idle"
            ELSE /\ sub'[f].outcome # "vetoed"
                 /\ sub'[f].beforeSend \in BeforeSendReturns
                 /\ CountOf(calls'[f], "setLoadingState") = 1]_vars

\* after a vetoed submission, one whose hook returned null is fetching
C19_Witness ==
    \E f \in Forms :
        /\ sub[f].prev = "vetoed"
        /\ sub[f].beforeSend = "null"
        /\ pc[f] = "fetch"
        /\ netCalls[f] = 1

\* the kinds onSuccess may be called with, and those of onError
SuccessKinds == {"json", "x-html", "redirect", "full-html"}
FailureKinds == {"timeout", "aborted", "request", "sse-parse"}

\* the kinds of the onSuccess calls in a log
DeliveredKinds(log) == { log[i].kind : i \in { n \in 1..Len(log) : log[n].cb = "onSuccess" } }

(* C15: of load() requests as of form submissions, every kind passed to      *)
(* onSuccess is one of 'json', 'x-html', 'redirect', 'full-html' and every   *)
(* kind passed to onError is one of 'timeout', 'aborted', 'request',         *)
(* 'sse-parse'.                                                              *)
C15_KindsOfLoad ==
    \A c \in Forms :
        /\ DeliveredKinds(calls[c]) \subseteq SuccessKinds
        /\ ErrorKinds(calls[c]) \subseteq FailureKinds

(* C21: whatever two forms' submissions interleave as, every onSuccess a     *)
(* form receives carries the kind classified from that form's own response   *)
(* and the data decoded from it.                                             *)
C21_FormsIndependent ==
    \A f \in JsForms : \A i \in 1..Len(jsCalls[f]) :
        jsCalls[f][i].cb = "onSuccess" =>
            /\ jsCalls[f][i].kind = ResponseTypeOf(response[f])
            /\ jsCalls[f][i].data = BodyData(response[f])

\* the callbacks of the event records of a stream, each dispatched on its own
RECURSIVE EachRecord(_, _)
EachRecord(records, progress) ==
    IF records = <<>> THEN <<>>
    ELSE (IF Len(records) = 1
          THEN FinalEvent(records[1], progress)
          ELSE LoopEvent(records[1], progress))
         \o EachRecord(Tail(records), progress)

\* the event records of a stream
RecordsOf(stream) == Split(Decode(stream), Blank)

\* the event record is a 'done' event whose data is not valid JSON
MalformedDone(record) ==
    LET lines == Split(record, Newline)
    IN  /\ EventTypeOf(lines, MessageType) = DoneType
        /\ EventDataOf(lines) # <<>>
        /\ ~JsonValid(EventDataOf(lines))

\* the event record begins with the name of a field, not with white space
BeginsWithField(record) == TrimStart(record) = record

C23_StreamErrorSurfaces ==
    \A f \in Forms :
        pc[f] = "hung" =>
            /\ ErrorKinds(calls[f]) \cap {"request", "aborted", "timeout"} # {}
            /\ ~isProcessing[f]
            /\ f \notin abortControllers

\* the submission of form f went past the cache to the network
Attempted(f) ==
    sub[f].outcome \in {"running", "delivered", "request", "timeout", "aborted", "sse"}

\* the attempts of the submission of form f: the first, and one for every retry
AttemptsOf(f) == 1 + sub[f].fails - (IF sub[f].outcome = "request" THEN 1 ELSE 0)

(* C24: a submission for which the progress proxy ran has onProgress         *)
(* registered, sse off, a file in its payload and a totalSize above 0; a     *)
(* submission for which it did not run has issued one network call for each  *)
(* of its attempts and has reported no percentage through onProgress.        *)
C24_ProxyOnlyWhenApplicable ==
    \A f \in Forms :
        Attempted(f) =>
            IF sub[f].proxy
            THEN /\ cfg[f].onProgress
                 /\ ~cfg[f].sse
                 /\ \E p \in Payloads : hasFiles(p) /\ cacheKey[f] = CacheKeyOf(f, p)
                 /\ totalSize[f] > 0
            ELSE /\ netCalls[f] = AttemptsOf(f)
                 /\ \A i \in 1..Len(calls[f]) :
                        calls[f][i].cb = "onProgress" => calls[f][i].data # <<>>

\* onProgress is registered, sse is off, the payload is an empty file: no proxy
C24_Witness ==
    \E f \in Forms :
        /\ cfg[f].onProgress /\ ~cfg[f].sse
        /\ \E p \in Payloads : hasFiles(p) /\ cacheKey[f] = CacheKeyOf(f, p)
        /\ ~sub[f].proxy
        /\ sub[f].outcome = "delivered"
        /\ netCalls[f] = 1

(* C25: a load() request that was cancelled through its handle while its    *)
(* fetch was pending has, once it settled, no controller registered and one  *)
(* onError, of kind 'aborted'.                                               *)
C25_LoadCancelSettlesAborted ==
    \A c \in Forms :
        (sub[c].cancelled /\ pc[c] = "idle") =>
            /\ c \notin abortControllers
            /\ CountOf(calls[c], "onError") = 1
            /\ ErrorKinds(calls[c]) = {"aborted"}

(* C26: whenever a form is not processing, the registry holds no controller  *)
(* for it.                                                                   *)
C26_NoRegistrationLeak ==
    \A f \in Forms :
        ~isProcessing[f] => f \notin abortControllers

(* C27: a submission for which the progress proxy ran and whose response was *)
(* classified without any failed attempt has issued one network call.        *)
C27_ProxyIssuesOneCall ==
    \A f \in Forms :
        (sub[f].proxy /\ sub[f].outcome = "delivered" /\ sub[f].fails = 0) =>
            netCalls[f] = 1

(* C28: when Gnex.cancel was called during the progress proxy, the step that *)
(* ends the proxy's read goes on to the attempt with the aborted signal      *)
(* attached, or settles the submission at once with onError('aborted'), the  *)
(* isProcessing flag cleared and resetLoadingState invoked.                  *)
C28_CancelDuringProxySettles ==
    [][\A f \in Forms :
          (/\ pc[f] = "proxyRead" /\ bodyRest[f] = <<>>
           /\ ctrlAborted[f]
           /\ pc'[f] # "proxyRead") =>
              \/ pc'[f] = "fetch" /\ sig'[f] = "abort"
              \/ /\ pc'[f] = "idle"
                 /\ ErrorKinds(calls'[f]) = {"aborted"}
                 /\ ~isProcessing'[f]
                 /\ CountOf(calls'[f], "resetLoadingState") = 1]_vars

(* C29: the step that ends the stream invokes, for the event record left in  *)
(* the buffer, the callbacks the loop invokes for the same record when a     *)
(* blank line ends it.                                                       *)
C29_ResidualDispatchedAlike ==
    [][\A f \in Forms :
          (pc[f] = "sse" /\ pc'[f] = "idle") =>
              calls'[f] = calls[f]
                          \o LoopEvent(eventBuffer[f], cfg[f].onProgress)
                          \o Resets(1)]_vars

(* C30: when a form with sse enabled has classified a response that is not   *)
(* an event stream and decoded truthy data from it, onSuccess was invoked    *)
(* once, with the kind the response classifies as.                           *)
C30_SseFallsThroughToOnSuccess ==
    \A f \in Forms :
        (cfg[f].sse /\ sub[f].outcome = "delivered" /\ sub[f].decoded = "truthy") =>
            /\ CountOf(calls[f], "onSuccess") = 1
            /\ DeliveredKinds(calls[f]) = {ResponseTypeOf(sub[f].response)}

\* the cache lookup of form f's submit handler is reached in this step
CacheRead(f) ==
    /\ Submitted(f) /\ ~isProcessing[f]
    /\ cfg[f].async /\ cfg[f].cache
    /\ sub'[f].outcome \in {"cache", "running"}

(* C31: a cache lookup that finds an entry with now >= expires does not     *)
(* serve it: the entry is deleted, onSuccess is not invoked by the step and *)
(* one network call is issued; an entry is served only while now < expires; *)
(* an entry stored with cache = true carries the timestamp Infinity, above  *)
(* every clock value, and one stored at time t with cache = s seconds       *)
(* carries t + 1000 * s.                                                    *)
C31_ExpiredEntryNeverServed ==
    [][/\ \A f \in Forms :
            (CacheRead(f) /\ responseCache[cacheKey'[f]] # NoEntry) =>
                IF now >= responseCache[cacheKey'[f]].expires
                THEN /\ responseCache'[cacheKey'[f]] = NoEntry
                     /\ CountOf(calls'[f], "onSuccess") = 0
                     /\ netCalls'[f] = 1
                     /\ pc'[f] \in {"fetch", "proxyFetch"}
                ELSE /\ sub'[f].outcome = "cache"
                     /\ netCalls'[f] = 0
       /\ \A k \in CacheKeys :
            (responseCache'[k] # responseCache[k] /\ responseCache'[k] # NoEntry) =>
                \E f \in Forms :
                    /\ cacheKey[f] = k
                    /\ cfg[f].cache
                    /\ cfg[f].cacheSecs = 0 =>
                          /\ responseCache'[k].expires = Infinity
                          /\ now' < Infinity
                    /\ cfg[f].cacheSecs > 0 =>
                          responseCache'[k].expires = now + 1000 * cfg[f].cacheSecs
       /\ \A k \in CacheKeys :
            (responseCache[k] # NoEntry /\ responseCache[k].expires = Infinity) =>
                /\ now' < Infinity
                /\ responseCache'[k] # NoEntry]_vars

\* a submission found its entry expired at the very instant now = expires,
\* deleted it and went to the network
C31_Witness ==
    \E f \in Forms :
        /\ pc[f] = "fetch" /\ sub[f].outcome = "running"
        /\ cfg[f].cache /\ cfg[f].cacheSecs > 0
        /\ sub[f].prev = "delivered"
        /\ lastResponse[cacheKey[f]] # NoEntry
        /\ lastResponse[cacheKey[f]].expires = now
        /\ responseCache[cacheKey[f]] = NoEntry
        /\ netCalls[f] = 1

\* the bytes of form f's stream that the reader has handed over so far
Consumed(f) == SubSeq(sub[f].stream, 1, Len(sub[f].stream) - Len(bodyRest[f]))

\* the callbacks of a log and their kinds, without their data
Shape(log) == [i \in 1..Len(log) |-> <<log[i].cb, log[i].kind>>]

\* no byte of the sequence belongs to a character of more than one byte
SingleBytes(b) == \A i \in 1..Len(b) : b[i] \notin {"C3", "A9"}

(* C32: between two reads of an event stream, the callbacks invoked so far   *)
(* are those of the event records that a blank line closes within the bytes  *)
(* read so far, one record after the other in stream order, and nothing of   *)
(* the record still open has been dispatched: it is what eventBuffer holds.  *)
(* They are compared with their data for streams of one-byte characters,     *)
(* and by callback and kind for every stream.                                *)
C32_DispatchedIncrementallyInOrder ==
    \A f \in Forms :
        (pc[f] = "sse" /\ sub[f].outcome = "running") =>
            LET events == Split(Decode(Consumed(f)), Blank)
                closed == HookCalls(3) \o LoopEvents(events, cfg[f].onProgress)
            IN  /\ Shape(calls[f]) = Shape(closed)
                /\ SingleBytes(Consumed(f)) =>
                      /\ calls[f] = closed
                      /\ eventBuffer[f] = events[Len(events)]

\* the progress event of the two-event stream was dispatched while the done
\* event was still arriving
C32_Witness ==
    \E f \in Forms :
        /\ pc[f] = "sse"
        /\ sub[f].stream = TwoEventStream
        /\ cfg[f].onProgress
        /\ bodyRest[f] # <<>>
        /\ eventBuffer[f] # <<>>
        /\ calls[f] = HookCalls(3) \o <<Call("onProgress", None, <<"5", "0">>)>>

(* C33: an async submission that issued a network call and has settled has  *)
(* invoked resetLoadingState exactly once, whatever the number of retries   *)
(* it performed.                                                            *)
C33_ResetLoadingStateOnce ==
    \A f \in Forms :
        (/\ pc[f] = "idle" /\ cfg[f].async
         /\ netCalls[f] > 0
         /\ sub[f].outcome \in {"delivered", "request", "timeout", "aborted", "sse"}) =>
            CountOf(calls[f], "resetLoadingState") = 1

\* the positions at which a network call of form f is outstanding
InFlight(f) == pc[f] \in {"fetch", "body", "sse", "proxyFetch", "proxyRead"}

\* this step issues a network call for form f
IssuesCall(f) ==
    \/ Submitted(f) /\ sub'[f].dropped = 0 /\ netCalls'[f] = 1
    \/ ~Submitted(f) /\ netCalls'[f] = netCalls[f] + 1

\* this step is the one in which the outstanding call of form f ends: its
\* failure is caught, or the body the proxy was reading is exhausted
SettlesCall(f) ==
    \/ pc[f] \in {"fetch", "body"} /\ sub'[f].fails = sub[f].fails + 1
    \/ pc[f] = "proxyRead" /\ bodyRest[f] = <<>>

(* C34: a network call is issued for a form only when none is outstanding   *)
(* for it, or in the very step in which the outstanding one ends (a retry,  *)
(* the call that follows the upload-progress proxy), so that at most one is *)
(* in flight; and while one is in flight the form's isProcessing is true.   *)
C34_OneCallInFlightWhileProcessing ==
    [][\A f \in Forms :
          /\ IssuesCall(f) => (~InFlight(f) \/ SettlesCall(f))
          /\ InFlight(f)' => isProcessing'[f]]_vars

\* a retry's call is in flight, after a submit event that arrived during the
\* submission was dropped
C34_Witness ==
    \E f \in Forms :
        /\ pc[f] = "fetch" /\ isProcessing[f]
        /\ sub[f].fails = 1 /\ sub[f].dropped = 1
        /\ netCalls[f] = 2

=============================================================================
